---------------------------- MODULE Spec2Model ----------------------------
(***************************************************************************)
(* A model of the blood-transfer ledger of src/blood_transfer_blockchain.py *)
(* (HospitalNode, SmartContract, BloodTransferBlockchain) and of the one    *)
(* caller-side step that enqueues an accepted transfer                      *)
(* (src/blood_transfer_grpc_server.py, RequestBloodTransfer), of the       *)
(* compatibility table of src/config.py and of the mining loop of           *)
(* src/demo_blood_transfer.py.                                              *)
(*                                                                          *)
(* Modelling conventions                                                    *)
(*  - A Python dict is a TLA+ function/record whose DOMAIN is the dict's key *)
(*    set; a list is a sequence.                                            *)
(*  - A byte string that is hashed is a record [text, code]: text is the    *)
(*    canonical structure of the string (what makes two strings equal),     *)
(*    code a number derived from it.  sha256 is collision free on text and  *)
(*    yields, besides the preimage, the leading HexLen hexadecimal digits   *)
(*    of the digest, a fixed arithmetic function of code.                   *)
(*  - time.time() is a logical clock that advances by one per reading;      *)
(*    uuid.uuid4() is a counter of fresh identifiers.                       *)
(*  - Latitudes are integers in units of one kilometre of meridian arc and  *)
(*    all participants lie on one meridian, where the haversine formula     *)
(*    reduces to the absolute latitude difference.                          *)
(***************************************************************************)
EXTENDS Integers, Sequences, FiniteSets, TLC

VARIABLES
    chain,                  \* self.chain: list of block dicts
    pending_transactions,   \* self.pending_transactions: list of transaction dicts
    hospitals,              \* self.hospitals: dict hospital_id -> HospitalNode
    now,                    \* the next value time.time() returns
    next_id,                \* the next value uuid.uuid4() returns
    last,                   \* history: the last operation, its arguments and result
    prev,                   \* history: chain, pool and participants before it
    vin,                    \* arguments of the last call of a function that is
                            \* checked on its own, or the local variables of
                            \* the calls in progress on other threads
    vout                    \* the value that function returned

vars == <<chain, pending_transactions, hospitals, now, next_id,
          last, prev, vin, vout>>

-----------------------------------------------------------------------------
(* Bounds of the model *)

\* total number of transactions created in a run (registrations, inventory
\* updates, penalties and accepted transfers)
MaxTx == 4

\* number of leading hexadecimal digits of a digest that the model keeps
HexLen == 2

\* largest nonce the proof-of-work search is followed to
MaxNonce == 400

\* self.max_transactions_per_block: 10 in the source (line 124); the model
\* runs the same code with a cap that pools of MaxTx transactions exceed
max_transactions_per_block == 2

\* self.mining_difficulty: 4 in the source (line 122); the model keeps HexLen
\* digits of a digest and asks for this many leading zeros among them
mining_difficulty == 1

(* Program constants *)

min_credits == 10
max_distance == 100
TransferCost == 5
TransferReward == 2
DefaultTamperingCredits == 2
InitialReputation == 100
ReputationPenalty == 15

(* Inputs of the calls the model makes *)

HospitalIds == {"A", "B"}

\* register_hospital: <<hospital_id, name, <<latitude, longitude>>, initial_credits>>
RegisterInputs ==
    { <<"A", "City General", <<0, 0>>, 12>>,
      <<"A", "City General", <<0, 0>>, 9>>,
      <<"B", "Memorial", <<5, 0>>, 12>>,
      <<"B", "Memorial", <<101, 0>>, 12>> }

\* add_blood_to_inventory: <<hospital_id, blood_type, quantity>>
InventoryInputs ==
    { <<"A", "O+", 2>>, <<"A", "A+", 1>>, <<"B", "O+", 1>> }

\* create_blood_transfer_transaction:
\* <<sender_id, receiver_id, blood_type, quantity, urgency_level>>
TransferInputs ==
    { <<"A", "B", "O+", 1, "urgent">>,
      <<"A", "B", "O+", 2, "normal">>,
      <<"A", "B", "A+", 1, "normal">>,
      <<"B", "A", "O+", 1, "normal">>,
      <<"A", "A", "O+", 1, "normal">> }

\* penalize_tampering: <<hospital_id, reason>>
PenaltyInputs ==
    { <<"A", "Data tampering detected">>, <<"B", "Data tampering detected">> }

\* mine_pending_transactions: miner_id
Miners == {"M"}

-----------------------------------------------------------------------------
(* Strings, serialization and hashing *)

RECURSIVE Digits(_)
\* str(n) for a natural number n: its decimal digits, most significant first
Digits(n) == IF n < 10 THEN <<n>> ELSE Append(Digits(n \div 10), n % 10)

RECURSIVE DecimalValue(_)
\* the number a sequence of decimal digits writes
DecimalValue(ds) ==
    IF ds = <<>> THEN 0
    ELSE 10 * DecimalValue(SubSeq(ds, 1, Len(ds) - 1)) + ds[Len(ds)]

\* every dict key of a block or a transaction, in the order sort_keys=True
\* gives them (ascending code points)
SortedKeys ==
    << "blood_type", "distance_km", "hash", "hospital_id", "index",
       "initial_credits", "is_blacklisted", "location", "merkle_root", "name",
       "new_reputation_score", "new_total", "previous_hash", "proof",
       "quantity", "quantity_added", "reason", "receiver_id",
       "remaining_tampering_credits", "sender_id", "status", "timestamp",
       "transaction_id", "transactions", "type", "urgency_level", "validator",
       "verification_hash" >>

RECURSIVE Items(_, _)
\* the (key, value) pairs of dict d over the keys ks[1..], keys absent from d
\* skipped: the body of json.dumps(d, sort_keys=True)
Items(d, ks) ==
    IF ks = <<>> THEN <<>>
    ELSE IF Head(ks) \in DOMAIN d
         THEN <<  <<Head(ks), d[Head(ks)]>>  >> \o Items(d, Tail(ks))
         ELSE Items(d, Tail(ks))

\* json.dumps(tx, sort_keys=True).encode() for a transaction dict
json_dumps_tx(tx) ==
    [text |-> Items(tx, SortedKeys),
     code |-> tx.transaction_id + tx.timestamp]

\* json.dumps(block, sort_keys=True, default=str).encode() for a block dict:
\* every key the dict holds at the time of the call is serialized, the
\* transactions as their own serializations
json_dumps_block(block) ==
    [text |-> Items([k \in DOMAIN block |->
                        IF k = "transactions"
                        THEN [i \in 1..Len(block.transactions) |->
                                 json_dumps_tx(block.transactions[i]).text]
                        ELSE block[k]],
                    SortedKeys),
     code |-> block.index + block.timestamp + Len(block.transactions)
              + (IF "proof" \in DOMAIN block THEN block.proof ELSE 0)]

\* the leading HexLen hexadecimal digits of the digest of a string with the
\* given code
HexDigits(code) ==
    [i \in 1..HexLen |-> ((code * 7 + 3) \div (16 ^ (i - 1))) % 16]

\* hashlib.sha256(s).hexdigest()
sha256(s) == [pre |-> s.text, hex |-> HexDigits(s.code)]

\* b'' (and ''.encode())
EmptyBytes == [text |-> <<>>, code |-> 0]

RECURSIVE HexValue(_)
\* the number a sequence of hexadecimal digits writes
HexValue(ds) ==
    IF ds = <<>> THEN 0
    ELSE 16 * HexValue(SubSeq(ds, 1, Len(ds) - 1)) + ds[Len(ds)]

\* (h1 + h2).encode() for two hexdigests
HexConcat(h1, h2) ==
    [text |-> <<h1, h2>>,
     code |-> HexValue(h1.hex) + 3 * HexValue(h2.hex)]

\* f'{last_proof}{proof}{last_hash}'.encode()
GuessString(last_proof, proof, last_hash) ==
    [text |-> <<Digits(last_proof) \o Digits(proof), last_hash>>,
     code |-> DecimalValue(Digits(last_proof) \o Digits(proof))
              + HexValue(last_hash.hex)]

\* calculate_hash(block)
calculate_hash(block) == sha256(json_dumps_block(block))

RECURSIVE MerkleLevel(_)
\* one pass of the while loop of calculate_merkle_root over a level of even
\* length: adjacent hashes are concatenated and hashed
MerkleLevel(hs) ==
    IF hs = <<>> THEN <<>>
    ELSE <<sha256(HexConcat(hs[1], hs[2]))>> \o MerkleLevel(SubSeq(hs, 3, Len(hs)))

RECURSIVE MerkleReduce_drops_odd(_)
\* the while loop with an odd level cut to even length instead of padded
MerkleReduce_drops_odd(hs) ==
    IF Len(hs) <= 1 THEN hs[1]
    ELSE MerkleReduce_drops_odd(
             MerkleLevel(IF Len(hs) % 2 # 0
                         THEN SubSeq(hs, 1, Len(hs) - 1)
                         ELSE hs))

RECURSIVE MerkleReduce(_)
\* the while loop of calculate_merkle_root
MerkleReduce(hs) ==
    IF Len(hs) <= 1 THEN hs[1]
    ELSE MerkleReduce(MerkleLevel(IF Len(hs) % 2 # 0
                                  THEN Append(hs, hs[Len(hs)])
                                  ELSE hs))

\* calculate_merkle_root(transactions)
calculate_merkle_root(transactions) ==
    IF transactions = <<>> THEN sha256(EmptyBytes)
    ELSE MerkleReduce([i \in 1..Len(transactions) |->
                          sha256(json_dumps_tx(transactions[i]))])

\* valid_proof(last_proof, proof, last_hash)
valid_proof(last_proof, proof, last_hash) ==
    LET guess_hash == sha256(GuessString(last_proof, proof, last_hash))
    IN  SubSeq(guess_hash.hex, 1, mining_difficulty)
          = [i \in 1..mining_difficulty |-> 0]

RECURSIVE ProofScan(_, _, _, _)
\* the while loop of proof_of_work from nonce proof on, up to nonce stop
ProofScan(last_proof, last_hash, proof, stop) ==
    IF proof >= stop \/ valid_proof(last_proof, proof, last_hash)
    THEN proof
    ELSE ProofScan(last_proof, last_hash, proof + 1, stop)

RECURSIVE ProofSearch(_, _, _)
\* the while loop of proof_of_work from nonce proof on, taken twenty nonces
\* at a time; a result above MaxNonce stands for a search the model does not
\* follow to its end
ProofSearch(last_proof, last_hash, proof) ==
    IF proof > MaxNonce THEN proof
    ELSE LET reached == ProofScan(last_proof, last_hash, proof, proof + 20)
         IN  IF reached < proof + 20 THEN reached
             ELSE ProofSearch(last_proof, last_hash, reached)

\* proof_of_work with the search started at nonce 1
proof_of_work_from_one(last_proof, last_hash) ==
    ProofSearch(last_proof, last_hash, 1)

\* proof_of_work(last_proof, last_hash)
proof_of_work(last_proof, last_hash) == ProofSearch(last_proof, last_hash, 0)

\* calculate_distance(lat1, lon1, lat2, lon2), for lon1 = lon2
calculate_distance(lat1, lon1, lat2, lon2) ==
    IF lat2 >= lat1 THEN lat2 - lat1 ELSE lat1 - lat2

-----------------------------------------------------------------------------
(* Dicts *)

\* d[k] = v for a dict d: the key is added when absent
SetItem(d, k, v) == [x \in DOMAIN d \cup {k} |-> IF x = k THEN v ELSE d[x]]

\* the dict d without the key k
WithoutKey(d, k) == [x \in DOMAIN d \ {k} |-> d[x]]

\* Python's None
None == [type |-> "None"]

\* d.get(k) == v: an absent key gives None, which equals no id
GetIs(d, k, v) == k \in DOMAIN d /\ d[k] = v

Min(a, b) == IF a <= b THEN a ELSE b

Max(a, b) == IF a >= b THEN a ELSE b

\* the empty dict {}
EmptyDict == [x \in {} |-> 0]

-----------------------------------------------------------------------------
(* HospitalNode and SmartContract *)

\* HospitalNode.__init__ with the default tampering_credits
HospitalNode(hospital_id, name, location, initial_blood_credits) ==
    [hospital_id |-> hospital_id,
     name |-> name,
     location |-> location,
     blood_credits |-> initial_blood_credits,
     tampering_credits |-> DefaultTamperingCredits,
     blood_inventory |-> EmptyDict,
     transaction_history |-> <<>>,
     is_blacklisted |-> FALSE,
     reputation_score |-> InitialReputation,
     total_transfers_sent |-> 0,
     total_transfers_received |-> 0]

\* validate_blood_transfer with the credit check ahead of the blacklist checks
validate_blood_transfer_credits_first(sender, receiver, blood_type, quantity, distance) ==
    IF sender.blood_credits < min_credits
    THEN <<FALSE, <<"Sender has insufficient blood credits",
                    sender.blood_credits, min_credits>> >>
    ELSE IF sender.is_blacklisted
    THEN <<FALSE, <<"Sender hospital is blacklisted", sender.hospital_id>> >>
    ELSE IF receiver.is_blacklisted
    THEN <<FALSE, <<"Receiver hospital is blacklisted", receiver.hospital_id>> >>
    ELSE IF \/ blood_type \notin DOMAIN sender.blood_inventory
            \/ sender.blood_inventory[blood_type] < quantity
    THEN <<FALSE, <<"Insufficient inventory at sender hospital", blood_type>> >>
    ELSE IF distance > max_distance
    THEN <<FALSE, <<"Transfer distance exceeds maximum allowed",
                    distance, max_distance>> >>
    ELSE <<TRUE, <<"Transfer validation successful">> >>

\* validate_blood_transfer with strict comparisons at the three thresholds
validate_blood_transfer_strict(sender, receiver, blood_type, quantity, distance) ==
    IF sender.is_blacklisted
    THEN <<FALSE, <<"Sender hospital is blacklisted", sender.hospital_id>> >>
    ELSE IF receiver.is_blacklisted
    THEN <<FALSE, <<"Receiver hospital is blacklisted", receiver.hospital_id>> >>
    ELSE IF sender.blood_credits <= min_credits
    THEN <<FALSE, <<"Sender has insufficient blood credits",
                    sender.blood_credits, min_credits>> >>
    ELSE IF \/ blood_type \notin DOMAIN sender.blood_inventory
            \/ sender.blood_inventory[blood_type] <= quantity
    THEN <<FALSE, <<"Insufficient inventory at sender hospital", blood_type>> >>
    ELSE IF distance >= max_distance
    THEN <<FALSE, <<"Transfer distance exceeds maximum allowed",
                    distance, max_distance>> >>
    ELSE <<TRUE, <<"Transfer validation successful">> >>

\* SmartContract.validate_blood_transfer: <<is_valid, message>>
validate_blood_transfer(sender, receiver, blood_type, quantity, distance) ==
    IF sender.is_blacklisted
    THEN <<FALSE, <<"Sender hospital is blacklisted", sender.hospital_id>> >>
    ELSE IF receiver.is_blacklisted
    THEN <<FALSE, <<"Receiver hospital is blacklisted", receiver.hospital_id>> >>
    ELSE IF sender.blood_credits < min_credits
    THEN <<FALSE, <<"Sender has insufficient blood credits",
                    sender.blood_credits, min_credits>> >>
    ELSE IF \/ blood_type \notin DOMAIN sender.blood_inventory
            \/ sender.blood_inventory[blood_type] < quantity
    THEN <<FALSE, <<"Insufficient inventory at sender hospital", blood_type>> >>
    ELSE IF distance > max_distance
    THEN <<FALSE, <<"Transfer distance exceeds maximum allowed",
                    distance, max_distance>> >>
    ELSE <<TRUE, <<"Transfer validation successful">> >>

\* execute_blood_transfer without the receiver's credit reward
execute_blood_transfer_no_reward(hs, sender_id, receiver_id, blood_type, quantity) ==
    IF blood_type \notin DOMAIN hs[sender_id].blood_inventory THEN hs
    ELSE
    LET s0 == hs[sender_id]
        h1 == [hs EXCEPT ![sender_id] =
                 [s0 EXCEPT !.blood_inventory =
                                SetItem(s0.blood_inventory, blood_type,
                                        s0.blood_inventory[blood_type] - quantity),
                            !.blood_credits = s0.blood_credits - TransferCost,
                            !.total_transfers_sent = s0.total_transfers_sent + 1]]
        r0 == h1[receiver_id]
        inv0 == IF blood_type \notin DOMAIN r0.blood_inventory
                THEN SetItem(r0.blood_inventory, blood_type, 0)
                ELSE r0.blood_inventory
    IN  [h1 EXCEPT ![receiver_id] =
           [r0 EXCEPT !.blood_inventory =
                          SetItem(inv0, blood_type, inv0[blood_type] + quantity),
                      !.total_transfers_received = r0.total_transfers_received + 1]]

\* execute_blood_transfer on a receiver read before the sender is updated:
\* when the two are the same participant the sender's update is overwritten
execute_blood_transfer_stale_receiver(hs, sender_id, receiver_id, blood_type, quantity) ==
    IF blood_type \notin DOMAIN hs[sender_id].blood_inventory THEN hs
    ELSE
    LET s0 == hs[sender_id]
        h1 == [hs EXCEPT ![sender_id] =
                 [s0 EXCEPT !.blood_inventory =
                                SetItem(s0.blood_inventory, blood_type,
                                        s0.blood_inventory[blood_type] - quantity),
                            !.blood_credits = s0.blood_credits - TransferCost,
                            !.total_transfers_sent = s0.total_transfers_sent + 1]]
        r0 == hs[receiver_id]
        inv0 == IF blood_type \notin DOMAIN r0.blood_inventory
                THEN SetItem(r0.blood_inventory, blood_type, 0)
                ELSE r0.blood_inventory
    IN  [h1 EXCEPT ![receiver_id] =
           [r0 EXCEPT !.blood_inventory =
                          SetItem(inv0, blood_type, inv0[blood_type] + quantity),
                      !.blood_credits = r0.blood_credits + TransferReward,
                      !.total_transfers_received = r0.total_transfers_received + 1]]

\* execute_blood_transfer that counts the units moved, not the transfer
execute_blood_transfer_counts_units(hs, sender_id, receiver_id, blood_type, quantity) ==
    IF blood_type \notin DOMAIN hs[sender_id].blood_inventory THEN hs
    ELSE
    LET s0 == hs[sender_id]
        h1 == [hs EXCEPT ![sender_id] =
                 [s0 EXCEPT !.blood_inventory =
                                SetItem(s0.blood_inventory, blood_type,
                                        s0.blood_inventory[blood_type] - quantity),
                            !.blood_credits = s0.blood_credits - TransferCost,
                            !.total_transfers_sent = s0.total_transfers_sent + quantity]]
        r0 == h1[receiver_id]
        inv0 == IF blood_type \notin DOMAIN r0.blood_inventory
                THEN SetItem(r0.blood_inventory, blood_type, 0)
                ELSE r0.blood_inventory
    IN  [h1 EXCEPT ![receiver_id] =
           [r0 EXCEPT !.blood_inventory =
                          SetItem(inv0, blood_type, inv0[blood_type] + quantity),
                      !.blood_credits = r0.blood_credits + TransferReward,
                      !.total_transfers_received = r0.total_transfers_received + quantity]]

\* SmartContract.execute_blood_transfer on the participants hs[sender_id] and
\* hs[receiver_id] (the same object when the ids are equal): the participants
\* after the call.  A blood type absent from the sender's inventory raises in
\* the first statement, which the except clause swallows.
execute_blood_transfer(hs, sender_id, receiver_id, blood_type, quantity) ==
    IF blood_type \notin DOMAIN hs[sender_id].blood_inventory THEN hs
    ELSE
    LET s0 == hs[sender_id]
        h1 == [hs EXCEPT ![sender_id] =
                 [s0 EXCEPT !.blood_inventory =
                                SetItem(s0.blood_inventory, blood_type,
                                        s0.blood_inventory[blood_type] - quantity),
                            !.blood_credits = s0.blood_credits - TransferCost,
                            !.total_transfers_sent = s0.total_transfers_sent + 1]]
        r0 == h1[receiver_id]
        inv0 == IF blood_type \notin DOMAIN r0.blood_inventory
                THEN SetItem(r0.blood_inventory, blood_type, 0)
                ELSE r0.blood_inventory
    IN  [h1 EXCEPT ![receiver_id] =
           [r0 EXCEPT !.blood_inventory =
                          SetItem(inv0, blood_type, inv0[blood_type] + quantity),
                      !.blood_credits = r0.blood_credits + TransferReward,
                      !.total_transfers_received = r0.total_transfers_received + 1]]

-----------------------------------------------------------------------------
(* BloodTransferBlockchain.  A method is an operator of the object self,     *)
(* a record of the fields chain, pending_transactions, hospitals and         *)
(* max_transactions_per_block, the clock now and the identifier counter      *)
(* next_id; it yields the object after the call and the value returned.      *)

\* a genesis block hashed before its validator is set
GenesisBlock_hash_before_validator(t) ==
    LET genesis_block ==
            [index |-> 0,
             timestamp |-> t,
             transactions |-> <<>>,
             proof |-> 0,
             previous_hash |-> "0",
             merkle_root |-> calculate_merkle_root(<<>>),
             validator |-> "system"]
    IN  SetItem(genesis_block, "hash",
                calculate_hash(WithoutKey(genesis_block, "validator")))

\* the genesis block built by create_genesis_block at time t
GenesisBlock(t) ==
    LET genesis_block ==
            [index |-> 0,
             timestamp |-> t,
             transactions |-> <<>>,
             proof |-> 0,
             previous_hash |-> "0",
             merkle_root |-> calculate_merkle_root(<<>>),
             validator |-> "system"]
    IN  SetItem(genesis_block, "hash", calculate_hash(genesis_block))

\* BloodTransferBlockchain(): empty pool and participant set, and the genesis
\* block, whose timestamp is the first clock reading
NewBlockchain ==
    [chain |-> <<GenesisBlock(0)>>,
     pending_transactions |-> <<>>,
     hospitals |-> EmptyDict,
     max_transactions_per_block |-> max_transactions_per_block,
     now |-> 1,
     next_id |-> 0]

\* register_hospital without the test for a registered id
register_hospital_overwrites(self, hospital_id, name, location, initial_credits) ==
    LET hospital == HospitalNode(hospital_id, name, location, initial_credits)
        registration_tx ==
            [type |-> "hospital_registration",
             hospital_id |-> hospital_id,
             name |-> name,
             location |-> location,
             initial_credits |-> initial_credits,
             timestamp |-> self.now,
             transaction_id |-> self.next_id]
    IN  [self |-> [self EXCEPT
                     !.hospitals = SetItem(@, hospital_id, hospital),
                     !.pending_transactions = Append(@, registration_tx),
                     !.now = @ + 1,
                     !.next_id = @ + 1],
         result |-> TRUE]

\* register_hospital that stores the new node before it tests the id
register_hospital_stores_first(self, hospital_id, name, location, initial_credits) ==
    LET hospital == HospitalNode(hospital_id, name, location, initial_credits)
        registration_tx ==
            [type |-> "hospital_registration",
             hospital_id |-> hospital_id,
             name |-> name,
             location |-> location,
             initial_credits |-> initial_credits,
             timestamp |-> self.now,
             transaction_id |-> self.next_id]
    IN  IF hospital_id \in DOMAIN self.hospitals
        THEN [self |-> [self EXCEPT
                          !.hospitals = SetItem(@, hospital_id, hospital)],
              result |-> FALSE]
        ELSE [self |-> [self EXCEPT
                          !.hospitals = SetItem(@, hospital_id, hospital),
                          !.pending_transactions = Append(@, registration_tx),
                          !.now = @ + 1,
                          !.next_id = @ + 1],
              result |-> TRUE]

\* register_hospital that does not pass initial_credits on, so that the node
\* gets the default of the parameter
register_hospital_default_credits(self, hospital_id, name, location, initial_credits) ==
    IF hospital_id \in DOMAIN self.hospitals
    THEN [self |-> self, result |-> FALSE]
    ELSE LET hospital == HospitalNode(hospital_id, name, location, 100)
             registration_tx ==
                 [type |-> "hospital_registration",
                  hospital_id |-> hospital_id,
                  name |-> name,
                  location |-> location,
                  initial_credits |-> initial_credits,
                  timestamp |-> self.now,
                  transaction_id |-> self.next_id]
         IN  [self |-> [self EXCEPT
                          !.hospitals = SetItem(@, hospital_id, hospital),
                          !.pending_transactions = Append(@, registration_tx),
                          !.now = @ + 1,
                          !.next_id = @ + 1],
              result |-> TRUE]

\* register_hospital(hospital_id, name, location, initial_credits)
register_hospital(self, hospital_id, name, location, initial_credits) ==
    IF hospital_id \in DOMAIN self.hospitals
    THEN [self |-> self, result |-> FALSE]
    ELSE LET hospital == HospitalNode(hospital_id, name, location, initial_credits)
             registration_tx ==
                 [type |-> "hospital_registration",
                  hospital_id |-> hospital_id,
                  name |-> name,
                  location |-> location,
                  initial_credits |-> initial_credits,
                  timestamp |-> self.now,
                  transaction_id |-> self.next_id]
         IN  [self |-> [self EXCEPT
                          !.hospitals = SetItem(@, hospital_id, hospital),
                          !.pending_transactions = Append(@, registration_tx),
                          !.now = @ + 1,
                          !.next_id = @ + 1],
              result |-> TRUE]

\* add_blood_to_inventory that assigns the quantity instead of adding it
add_blood_to_inventory_assigns(self, hospital_id, blood_type, quantity) ==
    IF hospital_id \notin DOMAIN self.hospitals
    THEN [self |-> self, result |-> FALSE]
    ELSE LET hospital == self.hospitals[hospital_id]
             inv0 == IF blood_type \notin DOMAIN hospital.blood_inventory
                     THEN SetItem(hospital.blood_inventory, blood_type, 0)
                     ELSE hospital.blood_inventory
             new_total == quantity
             inventory_tx ==
                 [type |-> "inventory_update",
                  hospital_id |-> hospital_id,
                  blood_type |-> blood_type,
                  quantity_added |-> quantity,
                  new_total |-> new_total,
                  timestamp |-> self.now,
                  transaction_id |-> self.next_id]
         IN  [self |-> [self EXCEPT
                          !.hospitals[hospital_id].blood_inventory =
                              SetItem(inv0, blood_type, new_total),
                          !.pending_transactions = Append(@, inventory_tx),
                          !.now = @ + 1,
                          !.next_id = @ + 1],
              result |-> TRUE]

\* add_blood_to_inventory(hospital_id, blood_type, quantity)
add_blood_to_inventory(self, hospital_id, blood_type, quantity) ==
    IF hospital_id \notin DOMAIN self.hospitals
    THEN [self |-> self, result |-> FALSE]
    ELSE LET hospital == self.hospitals[hospital_id]
             inv0 == IF blood_type \notin DOMAIN hospital.blood_inventory
                     THEN SetItem(hospital.blood_inventory, blood_type, 0)
                     ELSE hospital.blood_inventory
             new_total == inv0[blood_type] + quantity
             inventory_tx ==
                 [type |-> "inventory_update",
                  hospital_id |-> hospital_id,
                  blood_type |-> blood_type,
                  quantity_added |-> quantity,
                  new_total |-> new_total,
                  timestamp |-> self.now,
                  transaction_id |-> self.next_id]
         IN  [self |-> [self EXCEPT
                          !.hospitals[hospital_id].blood_inventory =
                              SetItem(inv0, blood_type, new_total),
                          !.pending_transactions = Append(@, inventory_tx),
                          !.now = @ + 1,
                          !.next_id = @ + 1],
              result |-> TRUE]

\* verify_location_proximity with a strict comparison
verify_location_proximity_strict(self, sender_id, receiver_id, limit) ==
    IF sender_id \notin DOMAIN self.hospitals
       \/ receiver_id \notin DOMAIN self.hospitals
    THEN FALSE
    ELSE LET sender_location == self.hospitals[sender_id].location
             receiver_location == self.hospitals[receiver_id].location
         IN  calculate_distance(sender_location[1], sender_location[2],
                                receiver_location[1], receiver_location[2])
               < limit

\* verify_location_proximity(sender_id, receiver_id, max_distance)
verify_location_proximity(self, sender_id, receiver_id, limit) ==
    IF sender_id \notin DOMAIN self.hospitals
       \/ receiver_id \notin DOMAIN self.hospitals
    THEN FALSE
    ELSE LET sender_location == self.hospitals[sender_id].location
             receiver_location == self.hospitals[receiver_id].location
         IN  calculate_distance(sender_location[1], sender_location[2],
                                receiver_location[1], receiver_location[2])
               <= limit

\* generate_verification_hash(sender_id, receiver_id, blood_type, quantity),
\* its time.time() reading t
generate_verification_hash(sender_id, receiver_id, blood_type, quantity, t) ==
    sha256([text |-> <<sender_id, receiver_id, blood_type, Digits(quantity), t>>,
            code |-> quantity + t])

\* create_blood_transfer_transaction that executes an accepted transfer at
\* once instead of leaving it to mining
create_blood_transfer_transaction_eager(self, sender_id, receiver_id, blood_type, quantity, urgency_level) ==
    IF sender_id \notin DOMAIN self.hospitals
       \/ receiver_id \notin DOMAIN self.hospitals
    THEN [self |-> self, result |-> None, logged |-> <<"Invalid hospital IDs">>]
    ELSE
    LET sender == self.hospitals[sender_id]
        receiver == self.hospitals[receiver_id]
        distance == calculate_distance(sender.location[1], sender.location[2],
                                       receiver.location[1], receiver.location[2])
        verdict == validate_blood_transfer(sender, receiver, blood_type,
                                           quantity, distance)
        transaction ==
            [type |-> "blood_transfer",
             transaction_id |-> self.next_id,
             sender_id |-> sender_id,
             receiver_id |-> receiver_id,
             blood_type |-> blood_type,
             quantity |-> quantity,
             urgency_level |-> urgency_level,
             distance_km |-> distance,
             timestamp |-> self.now,
             status |-> "pending",
             verification_hash |->
                 generate_verification_hash(sender_id, receiver_id, blood_type,
                                            quantity, self.now + 1)]
    IN  IF ~verdict[1]
        THEN [self |-> self, result |-> None, logged |-> verdict[2]]
        ELSE [self |-> [self EXCEPT
                          !.hospitals =
                              execute_blood_transfer(@, sender_id, receiver_id,
                                                     blood_type, quantity),
                          !.now = @ + 2, !.next_id = @ + 1],
              result |-> transaction,
              logged |-> <<"Blood transfer transaction created">>]

\* create_blood_transfer_transaction(sender_id, receiver_id, blood_type,
\* quantity, urgency_level): the transaction or None is returned, the message
\* is only logged.  The pool is not touched: the caller appends.
create_blood_transfer_transaction(self, sender_id, receiver_id, blood_type, quantity, urgency_level) ==
    IF sender_id \notin DOMAIN self.hospitals
       \/ receiver_id \notin DOMAIN self.hospitals
    THEN [self |-> self, result |-> None, logged |-> <<"Invalid hospital IDs">>]
    ELSE
    LET sender == self.hospitals[sender_id]
        receiver == self.hospitals[receiver_id]
        distance == calculate_distance(sender.location[1], sender.location[2],
                                       receiver.location[1], receiver.location[2])
        verdict == validate_blood_transfer(sender, receiver, blood_type,
                                           quantity, distance)
        transaction ==
            [type |-> "blood_transfer",
             transaction_id |-> self.next_id,
             sender_id |-> sender_id,
             receiver_id |-> receiver_id,
             blood_type |-> blood_type,
             quantity |-> quantity,
             urgency_level |-> urgency_level,
             distance_km |-> distance,
             timestamp |-> self.now,
             status |-> "pending",
             verification_hash |->
                 generate_verification_hash(sender_id, receiver_id, blood_type,
                                            quantity, self.now + 1)]
    IN  IF ~verdict[1]
        THEN [self |-> self, result |-> None, logged |-> verdict[2]]
        ELSE [self |-> [self EXCEPT !.now = @ + 2, !.next_id = @ + 1],
              result |-> transaction,
              logged |-> <<"Blood transfer transaction created">>]

\* BloodTransferService.RequestBloodTransfer: the transaction
\* create_blood_transfer_transaction returns is appended to the pool; the
\* response carries success and a message
RequestBloodTransfer(self, sender_id, receiver_id, blood_type, quantity, urgency_level) ==
    LET made == create_blood_transfer_transaction(self, sender_id, receiver_id,
                                                  blood_type, quantity,
                                                  urgency_level)
    IN  IF made.result # None
        THEN [self |-> [made.self EXCEPT
                          !.pending_transactions = Append(@, made.result)],
              result |-> made.result,
              logged |-> made.logged,
              response |-> [success |-> TRUE,
                            message |-> <<"Blood transfer request accepted",
                                          made.result.transaction_id>>]]
        ELSE [self |-> made.self,
              result |-> None,
              logged |-> made.logged,
              response |-> [success |-> FALSE,
                            message |-> <<"Blood transfer request denied - check requirements">>]]

\* penalize_tampering that blacklists at every penalty
penalize_tampering_always_blacklists(self, hospital_id, reason) ==
    IF hospital_id \notin DOMAIN self.hospitals
    THEN [self |-> self, result |-> FALSE]
    ELSE LET h0 == self.hospitals[hospital_id]
             h1 == [h0 EXCEPT
                      !.tampering_credits = @ - 1,
                      !.reputation_score = Max(0, @ - ReputationPenalty)]
             hospital == [h1 EXCEPT !.is_blacklisted = TRUE]
             penalty_tx ==
                 [type |-> "tampering_penalty",
                  hospital_id |-> hospital_id,
                  reason |-> reason,
                  remaining_tampering_credits |-> hospital.tampering_credits,
                  new_reputation_score |-> hospital.reputation_score,
                  is_blacklisted |-> hospital.is_blacklisted,
                  timestamp |-> self.now,
                  transaction_id |-> self.next_id]
         IN  [self |-> [self EXCEPT
                          !.hospitals[hospital_id] = hospital,
                          !.pending_transactions = Append(@, penalty_tx),
                          !.now = @ + 1,
                          !.next_id = @ + 1],
              result |-> TRUE]

\* penalize_tampering that blacklists only below 0 tampering credits
penalize_tampering_below_zero(self, hospital_id, reason) ==
    IF hospital_id \notin DOMAIN self.hospitals
    THEN [self |-> self, result |-> FALSE]
    ELSE LET h0 == self.hospitals[hospital_id]
             h1 == [h0 EXCEPT
                      !.tampering_credits = @ - 1,
                      !.reputation_score = Max(0, @ - ReputationPenalty)]
             hospital == IF h1.tampering_credits < 0
                         THEN [h1 EXCEPT !.is_blacklisted = TRUE]
                         ELSE h1
             penalty_tx ==
                 [type |-> "tampering_penalty",
                  hospital_id |-> hospital_id,
                  reason |-> reason,
                  remaining_tampering_credits |-> hospital.tampering_credits,
                  new_reputation_score |-> hospital.reputation_score,
                  is_blacklisted |-> hospital.is_blacklisted,
                  timestamp |-> self.now,
                  transaction_id |-> self.next_id]
         IN  [self |-> [self EXCEPT
                          !.hospitals[hospital_id] = hospital,
                          !.pending_transactions = Append(@, penalty_tx),
                          !.now = @ + 1,
                          !.next_id = @ + 1],
              result |-> TRUE]

\* penalize_tampering without the floor of the reputation score
penalize_tampering_no_floor(self, hospital_id, reason) ==
    IF hospital_id \notin DOMAIN self.hospitals
    THEN [self |-> self, result |-> FALSE]
    ELSE LET h0 == self.hospitals[hospital_id]
             h1 == [h0 EXCEPT
                      !.tampering_credits = @ - 1,
                      !.reputation_score = @ - ReputationPenalty]
             hospital == IF h1.tampering_credits <= 0
                         THEN [h1 EXCEPT !.is_blacklisted = TRUE]
                         ELSE h1
             penalty_tx ==
                 [type |-> "tampering_penalty",
                  hospital_id |-> hospital_id,
                  reason |-> reason,
                  remaining_tampering_credits |-> hospital.tampering_credits,
                  new_reputation_score |-> hospital.reputation_score,
                  is_blacklisted |-> hospital.is_blacklisted,
                  timestamp |-> self.now,
                  transaction_id |-> self.next_id]
         IN  [self |-> [self EXCEPT
                          !.hospitals[hospital_id] = hospital,
                          !.pending_transactions = Append(@, penalty_tx),
                          !.now = @ + 1,
                          !.next_id = @ + 1],
              result |-> TRUE]

\* penalize_tampering that records the penalty of an id it does not know
penalize_tampering_records_unknown(self, hospital_id, reason) ==
    IF hospital_id \notin DOMAIN self.hospitals
    THEN [self |-> [self EXCEPT
                      !.pending_transactions =
                          Append(@, [type |-> "tampering_penalty",
                                     hospital_id |-> hospital_id,
                                     reason |-> reason,
                                     timestamp |-> self.now,
                                     transaction_id |-> self.next_id]),
                      !.now = @ + 1,
                      !.next_id = @ + 1],
          result |-> FALSE]
    ELSE LET h0 == self.hospitals[hospital_id]
             h1 == [h0 EXCEPT
                      !.tampering_credits = @ - 1,
                      !.reputation_score = Max(0, @ - ReputationPenalty)]
             hospital == IF h1.tampering_credits <= 0
                         THEN [h1 EXCEPT !.is_blacklisted = TRUE]
                         ELSE h1
             penalty_tx ==
                 [type |-> "tampering_penalty",
                  hospital_id |-> hospital_id,
                  reason |-> reason,
                  remaining_tampering_credits |-> hospital.tampering_credits,
                  new_reputation_score |-> hospital.reputation_score,
                  is_blacklisted |-> hospital.is_blacklisted,
                  timestamp |-> self.now,
                  transaction_id |-> self.next_id]
         IN  [self |-> [self EXCEPT
                          !.hospitals[hospital_id] = hospital,
                          !.pending_transactions = Append(@, penalty_tx),
                          !.now = @ + 1,
                          !.next_id = @ + 1],
              result |-> TRUE]

\* penalize_tampering whose tampering credits stop at zero
penalize_tampering_stops_at_zero(self, hospital_id, reason) ==
    IF hospital_id \notin DOMAIN self.hospitals
    THEN [self |-> self, result |-> FALSE]
    ELSE LET h0 == self.hospitals[hospital_id]
             h1 == [h0 EXCEPT
                      !.tampering_credits = Max(0, @ - 1),
                      !.reputation_score = Max(0, @ - ReputationPenalty)]
             hospital == IF h1.tampering_credits <= 0
                         THEN [h1 EXCEPT !.is_blacklisted = TRUE]
                         ELSE h1
             penalty_tx ==
                 [type |-> "tampering_penalty",
                  hospital_id |-> hospital_id,
                  reason |-> reason,
                  remaining_tampering_credits |-> hospital.tampering_credits,
                  new_reputation_score |-> hospital.reputation_score,
                  is_blacklisted |-> hospital.is_blacklisted,
                  timestamp |-> self.now,
                  transaction_id |-> self.next_id]
         IN  [self |-> [self EXCEPT
                          !.hospitals[hospital_id] = hospital,
                          !.pending_transactions = Append(@, penalty_tx),
                          !.now = @ + 1,
                          !.next_id = @ + 1],
              result |-> TRUE]

\* penalize_tampering(hospital_id, reason)
penalize_tampering(self, hospital_id, reason) ==
    IF hospital_id \notin DOMAIN self.hospitals
    THEN [self |-> self, result |-> FALSE]
    ELSE LET h0 == self.hospitals[hospital_id]
             h1 == [h0 EXCEPT
                      !.tampering_credits = @ - 1,
                      !.reputation_score = Max(0, @ - ReputationPenalty)]
             hospital == IF h1.tampering_credits <= 0
                         THEN [h1 EXCEPT !.is_blacklisted = TRUE]
                         ELSE h1
             penalty_tx ==
                 [type |-> "tampering_penalty",
                  hospital_id |-> hospital_id,
                  reason |-> reason,
                  remaining_tampering_credits |-> hospital.tampering_credits,
                  new_reputation_score |-> hospital.reputation_score,
                  is_blacklisted |-> hospital.is_blacklisted,
                  timestamp |-> self.now,
                  transaction_id |-> self.next_id]
         IN  [self |-> [self EXCEPT
                          !.hospitals[hospital_id] = hospital,
                          !.pending_transactions = Append(@, penalty_tx),
                          !.now = @ + 1,
                          !.next_id = @ + 1],
              result |-> TRUE]

\* the slice with an end one too far: [:max_transactions_per_block + 1]
TransactionsToMine_one_more(pool, cap) ==
    SubSeq(pool, 1, Min(cap + 1, Len(pool)))

\* pending_transactions[:max_transactions_per_block]
TransactionsToMine(pool, cap) ==
    SubSeq(pool, 1, Min(cap, Len(pool)))

\* the slice with a start one too early: [max_transactions_per_block - 1:]
RemainingPool_one_early(pool, cap) ==
    SubSeq(pool, cap, Len(pool))

\* the cut that empties the pool, whatever its length
RemainingPool_drops_all(pool, cap) == SubSeq(pool, Len(pool) + 1, Len(pool))

\* pending_transactions[max_transactions_per_block:]
RemainingPool(pool, cap) == SubSeq(pool, cap + 1, Len(pool))

\* a block numbered len(chain) + 1
NewBlock_index_from_one(c, txs, miner_id, t) ==
    LET last_block == c[Len(c)]
        new_block ==
            [index |-> Len(c) + 1,
             timestamp |-> t,
             transactions |-> txs,
             previous_hash |-> last_block.hash,
             merkle_root |-> calculate_merkle_root(txs),
             validator |-> miner_id]
        with_proof == SetItem(new_block, "proof",
                              proof_of_work(last_block.proof, last_block.hash))
    IN  SetItem(with_proof, "hash", calculate_hash(with_proof))

\* a block linked to chain[0] instead of chain[-1]
NewBlock_on_first(c, txs, miner_id, t) ==
    LET last_block == c[1]
        new_block ==
            [index |-> Len(c),
             timestamp |-> t,
             transactions |-> txs,
             previous_hash |-> last_block.hash,
             merkle_root |-> calculate_merkle_root(txs),
             validator |-> miner_id]
        with_proof == SetItem(new_block, "proof",
                              proof_of_work(last_block.proof, last_block.hash))
    IN  SetItem(with_proof, "hash", calculate_hash(with_proof))

\* a block whose hash is computed before its proof is set
NewBlock_hash_first(c, txs, miner_id, t) ==
    LET last_block == c[Len(c)]
        new_block ==
            [index |-> Len(c),
             timestamp |-> t,
             transactions |-> txs,
             previous_hash |-> last_block.hash,
             merkle_root |-> calculate_merkle_root(txs),
             validator |-> miner_id]
        with_proof == SetItem(new_block, "proof",
                              proof_of_work(last_block.proof, last_block.hash))
    IN  SetItem(with_proof, "hash", calculate_hash(new_block))

\* the block whose merkle_root covers its first transaction alone
NewBlock_root_of_first(c, txs, miner_id, t) ==
    LET last_block == c[Len(c)]
        new_block ==
            [index |-> Len(c),
             timestamp |-> t,
             transactions |-> txs,
             previous_hash |-> last_block.hash,
             merkle_root |-> calculate_merkle_root(SubSeq(txs, 1, 1)),
             validator |-> miner_id]
        with_proof == SetItem(new_block, "proof",
                              proof_of_work(last_block.proof, last_block.hash))
    IN  SetItem(with_proof, "hash", calculate_hash(with_proof))

\* the block mine_pending_transactions builds for miner_id at time t on the
\* chain c from the transactions txs: the hash is computed while the dict has
\* no 'hash' key and is stored under that key afterwards
NewBlock(c, txs, miner_id, t) ==
    LET last_block == c[Len(c)]
        new_block ==
            [index |-> Len(c),
             timestamp |-> t,
             transactions |-> txs,
             previous_hash |-> last_block.hash,
             merkle_root |-> calculate_merkle_root(txs),
             validator |-> miner_id]
        with_proof == SetItem(new_block, "proof",
                              proof_of_work(last_block.proof, last_block.hash))
    IN  SetItem(with_proof, "hash", calculate_hash(with_proof))

\* the loop with a type tag no transaction carries: no transfer is executed
ExecuteTransfers_wrong_type(s, txs) == [i \in 1..Len(txs) |-> s]

RECURSIVE ExecuteTransfers_replays_updates(_, _)
\* the loop that also adds the quantity of a mined inventory_update again
ExecuteTransfers_replays_updates(s, txs) ==
    IF txs = <<>> THEN <<>>
    ELSE LET tx == Head(txs)
             after ==
                 IF tx.type = "blood_transfer"
                 THEN [s EXCEPT !.hospitals =
                         execute_blood_transfer(@, tx.sender_id, tx.receiver_id,
                                                tx.blood_type, tx.quantity)]
                 ELSE IF tx.type = "inventory_update"
                 THEN [s EXCEPT
                         !.hospitals[tx.hospital_id].blood_inventory[tx.blood_type] =
                             @ + tx.quantity_added]
                 ELSE s
         IN  <<after>> \o ExecuteTransfers_replays_updates(after, Tail(txs))

RECURSIVE ExecuteTransfers(_, _)
\* the for loop of mine_pending_transactions over the mined transactions,
\* from the object s on: the object after each iteration
ExecuteTransfers(s, txs) ==
    IF txs = <<>> THEN <<>>
    ELSE LET tx == Head(txs)
             after ==
                 IF tx.type = "blood_transfer"
                 THEN [s EXCEPT !.hospitals =
                         execute_blood_transfer(@, tx.sender_id, tx.receiver_id,
                                                tx.blood_type, tx.quantity)]
                 ELSE s
         IN  <<after>> \o ExecuteTransfers(after, Tail(txs))

\* mine_pending_transactions(miner_id) on a non-empty pool, statement by
\* statement: the object after the block is appended, after the pool is
\* cut, and after each iteration of the loop that executes the transfers
MineSteps(self, miner_id) ==
    LET transactions_to_mine ==
            TransactionsToMine(self.pending_transactions,
                               self.max_transactions_per_block)
        new_block == NewBlock(self.chain, transactions_to_mine, miner_id,
                              self.now)
        appended == [self EXCEPT !.chain = Append(@, new_block), !.now = @ + 1]
        cut == [appended EXCEPT
                  !.pending_transactions =
                      RemainingPool(@, self.max_transactions_per_block)]
    IN  <<appended, cut>> \o ExecuteTransfers(cut, transactions_to_mine)

\* mine_pending_transactions without the test for an empty pool
mine_pending_transactions_empty_block(self, miner_id) ==
    LET steps == MineSteps(self, miner_id)
        done == steps[Len(steps)]
    IN  [self |-> done, result |-> done.chain[Len(done.chain)]]

\* mine_pending_transactions(miner_id): the new block (the dict appended to
\* the chain) or None is returned
mine_pending_transactions(self, miner_id) ==
    IF self.pending_transactions = <<>>
    THEN [self |-> self, result |-> None]
    ELSE LET steps == MineSteps(self, miner_id)
             done == steps[Len(steps)]
         IN  [self |-> done, result |-> done.chain[Len(done.chain)]]

\* validate_chain without the comparison of the stored hash
validate_chain_links_only(c) ==
    \A i \in 2..Len(c) :
        LET current_block == c[i]
            previous_block == c[i - 1]
        IN  /\ current_block.previous_hash = previous_block.hash
            /\ valid_proof(previous_block.proof, current_block.proof,
                           previous_block.hash)

\* validate_chain with the loop started at the genesis block
validate_chain_from_genesis(c) ==
    \A i \in 1..Len(c) :
        LET current_block == c[i]
        IN  /\ current_block.hash = calculate_hash(current_block)
            /\ i > 1 => /\ current_block.previous_hash = c[i - 1].hash
                        /\ valid_proof(c[i - 1].proof, current_block.proof,
                                       c[i - 1].hash)

\* validate_chain() on the chain c
validate_chain(c) ==
    \A i \in 2..Len(c) :
        LET current_block == c[i]
            previous_block == c[i - 1]
        IN  /\ current_block.hash = calculate_hash(current_block)
            /\ current_block.previous_hash = previous_block.hash
            /\ valid_proof(previous_block.proof, current_block.proof,
                           previous_block.hash)

\* HospitalNode.to_dict(): every field but transaction_history
to_dict(hospital) == WithoutKey(hospital, "transaction_history")

RECURSIVE CountMentions(_, _)
\* the inner loop of get_hospital_stats: the transactions among txs that name
\* hospital_id as sender_id, receiver_id or hospital_id
CountMentions(txs, hospital_id) ==
    IF txs = <<>> THEN 0
    ELSE (IF \/ GetIs(Head(txs), "sender_id", hospital_id)
             \/ GetIs(Head(txs), "receiver_id", hospital_id)
             \/ GetIs(Head(txs), "hospital_id", hospital_id)
          THEN 1 ELSE 0) + CountMentions(Tail(txs), hospital_id)

RECURSIVE CountInChain(_, _)
\* the outer loop of get_hospital_stats over the blocks of c
CountInChain(c, hospital_id) ==
    IF c = <<>> THEN 0
    ELSE CountMentions(Head(c).transactions, hospital_id)
         + CountInChain(Tail(c), hospital_id)

\* get_hospital_stats(hospital_id): the dict of statistics or None
get_hospital_stats(self, hospital_id) ==
    IF hospital_id \notin DOMAIN self.hospitals THEN None
    ELSE LET hospital == self.hospitals[hospital_id]
             tx_count == CountInChain(self.chain, hospital_id)
         IN  SetItem(SetItem(SetItem(to_dict(hospital),
                                     "total_transactions", tx_count),
                             "blockchain_blocks", Len(self.chain)),
                     "pending_transactions", Len(self.pending_transactions))

RECURSIVE SumValues(_)
\* sum(d.values()) for a dict d of numbers
SumValues(d) ==
    IF DOMAIN d = {} THEN 0
    ELSE LET k == CHOOSE k \in DOMAIN d : TRUE
         IN  d[k] + SumValues(WithoutKey(d, k))

\* get_system_stats that takes the blacklisted participants for the active
get_system_stats_counts_blacklisted(self) ==
    LET total_hospitals == Cardinality(DOMAIN self.hospitals)
        active_hospitals ==
            Cardinality({h \in DOMAIN self.hospitals :
                            self.hospitals[h].is_blacklisted})
        blacklisted_hospitals == total_hospitals - active_hospitals
        total_blood_units ==
            SumValues([h \in DOMAIN self.hospitals |->
                          SumValues(self.hospitals[h].blood_inventory)])
    IN  [total_hospitals |-> total_hospitals,
         active_hospitals |-> active_hospitals,
         blacklisted_hospitals |-> blacklisted_hospitals,
         total_blood_units |-> total_blood_units,
         blockchain_length |-> Len(self.chain),
         pending_transactions |-> Len(self.pending_transactions),
         is_chain_valid |-> validate_chain(self.chain)]

\* get_system_stats()
get_system_stats(self) ==
    LET total_hospitals == Cardinality(DOMAIN self.hospitals)
        active_hospitals ==
            Cardinality({h \in DOMAIN self.hospitals :
                            ~self.hospitals[h].is_blacklisted})
        blacklisted_hospitals == total_hospitals - active_hospitals
        total_blood_units ==
            SumValues([h \in DOMAIN self.hospitals |->
                          SumValues(self.hospitals[h].blood_inventory)])
    IN  [total_hospitals |-> total_hospitals,
         active_hospitals |-> active_hospitals,
         blacklisted_hospitals |-> blacklisted_hospitals,
         total_blood_units |-> total_blood_units,
         blockchain_length |-> Len(self.chain),
         pending_transactions |-> Len(self.pending_transactions),
         is_chain_valid |-> validate_chain(self.chain)]


-----------------------------------------------------------------------------
(* The ledger as a state machine: one action per call *)

\* the object the variables hold; max_transactions_per_block is assigned by
\* __init__ alone, so the object before the last call has the value
Self ==
    [chain |-> chain,
     pending_transactions |-> pending_transactions,
     hospitals |-> hospitals,
     max_transactions_per_block |-> prev.max_transactions_per_block,
     now |-> now,
     next_id |-> next_id]

\* the variables take the fields of the object s
Becomes(s) ==
    /\ chain' = s.chain
    /\ pending_transactions' = s.pending_transactions
    /\ hospitals' = s.hospitals
    /\ now' = s.now
    /\ next_id' = s.next_id

\* no validate_blood_transfer evaluation is on record
NoCall == [called |-> FALSE]

Init ==
    /\ chain = NewBlockchain.chain
    /\ pending_transactions = NewBlockchain.pending_transactions
    /\ hospitals = NewBlockchain.hospitals
    /\ now = NewBlockchain.now
    /\ next_id = NewBlockchain.next_id
    /\ last = [op |-> "__init__", args |-> <<>>, ok |-> TRUE, result |-> TRUE]
    /\ prev = NewBlockchain
    /\ vin = NoCall
    /\ vout = NoCall

\* a successful register_hospital call
RegisterWithin(in, limit) ==
    LET r == register_hospital(Self, in[1], in[2], in[3], in[4])
    IN  /\ r.result
        /\ next_id < limit
        /\ Becomes(r.self)
        /\ last' = [op |-> "register_hospital", args |-> in, ok |-> TRUE, result |-> r.result]
        /\ prev' = Self
        /\ UNCHANGED <<vin, vout>>

\* the same call within the MaxTx transactions of a run
Register(in) == RegisterWithin(in, MaxTx)

\* a successful add_blood_to_inventory call
AddBloodWithin(in, limit) ==
    LET r == add_blood_to_inventory(Self, in[1], in[2], in[3])
    IN  /\ r.result
        /\ next_id < limit
        /\ Becomes(r.self)
        /\ last' = [op |-> "add_blood_to_inventory", args |-> in, ok |-> TRUE,
                    result |-> r.result]
        /\ prev' = Self
        /\ UNCHANGED <<vin, vout>>

\* the same call within the MaxTx transactions of a run
AddBlood(in) == AddBloodWithin(in, MaxTx)

\* an accepted transfer request
RequestTransferWithin(in, limit) ==
    LET r == RequestBloodTransfer(Self, in[1], in[2], in[3], in[4], in[5])
    IN  /\ r.result # None
        /\ next_id < limit
        /\ Becomes(r.self)
        /\ last' = [op |-> "create_blood_transfer_transaction", args |-> in, ok |-> TRUE,
                    result |-> r.result, logged |-> r.logged,
                    response |-> r.response]
        /\ prev' = Self
        /\ UNCHANGED <<vin, vout>>

\* the same call within the MaxTx transactions of a run
RequestTransfer(in) == RequestTransferWithin(in, MaxTx)

\* a successful penalize_tampering call
PenalizeWithin(in, limit) ==
    LET r == penalize_tampering(Self, in[1], in[2])
    IN  /\ r.result
        /\ next_id < limit
        /\ Becomes(r.self)
        /\ last' = [op |-> "penalize_tampering", args |-> in, ok |-> TRUE, result |-> r.result]
        /\ prev' = Self
        /\ UNCHANGED <<vin, vout>>

\* the same call within the MaxTx transactions of a run
Penalize(in) == PenalizeWithin(in, MaxTx)

\* a mine_pending_transactions call on a non-empty pool whose proof-of-work
\* search ends within MaxNonce
Mine(miner_id) ==
    LET r == mine_pending_transactions(Self, miner_id)
    IN  /\ r.result # None
        /\ r.result.proof <= MaxNonce
        /\ Becomes(r.self)
        /\ last' = [op |-> "mine_pending_transactions", args |-> <<miner_id>>, ok |-> TRUE,
                    result |-> r.result]
        /\ prev' = Self
        /\ UNCHANGED <<vin, vout>>

\* The calls that succeed.  A call that fails returns before it assigns
\* anything: it is a stuttering step here, and a recorded step of SpecCalls.
Next ==
    \/ \E in \in RegisterInputs : Register(in)
    \/ \E in \in InventoryInputs : AddBlood(in)
    \/ \E in \in TransferInputs : RequestTransfer(in)
    \/ \E in \in PenaltyInputs : Penalize(in)
    \/ \E miner \in Miners : Mine(miner)

Spec == Init /\ [][Next]_vars


-----------------------------------------------------------------------------
(* Calls that fail, for the claims about them *)

\* a register_hospital call that returns False
RegisterRefused(in) ==
    LET r == register_hospital(Self, in[1], in[2], in[3], in[4])
    IN  /\ ~r.result
        /\ Becomes(r.self)
        /\ last' = [op |-> "register_hospital", args |-> in, ok |-> FALSE, result |-> r.result]
        /\ prev' = Self
        /\ UNCHANGED <<vin, vout>>

\* an add_blood_to_inventory call that returns False
AddBloodRefused(in) ==
    LET r == add_blood_to_inventory(Self, in[1], in[2], in[3])
    IN  /\ ~r.result
        /\ Becomes(r.self)
        /\ last' = [op |-> "add_blood_to_inventory", args |-> in, ok |-> FALSE,
                    result |-> r.result]
        /\ prev' = Self
        /\ UNCHANGED <<vin, vout>>

\* a transfer request that is denied
RequestTransferDenied(in) ==
    LET r == RequestBloodTransfer(Self, in[1], in[2], in[3], in[4], in[5])
    IN  /\ r.result = None
        /\ Becomes(r.self)
        /\ last' = [op |-> "create_blood_transfer_transaction", args |-> in, ok |-> FALSE,
                    result |-> r.result, logged |-> r.logged,
                    response |-> r.response]
        /\ prev' = Self
        /\ UNCHANGED <<vin, vout>>

\* a penalize_tampering call that returns False
PenalizeRefused(in) ==
    LET r == penalize_tampering(Self, in[1], in[2])
    IN  /\ ~r.result
        /\ Becomes(r.self)
        /\ last' = [op |-> "penalize_tampering", args |-> in, ok |-> FALSE, result |-> r.result]
        /\ prev' = Self
        /\ UNCHANGED <<vin, vout>>

\* a mine_pending_transactions call on an empty pool
MineNothing(miner_id) ==
    LET r == mine_pending_transactions(Self, miner_id)
    IN  /\ r.result = None
        /\ Becomes(r.self)
        /\ last' = [op |-> "mine_pending_transactions", args |-> <<miner_id>>, ok |-> FALSE,
                    result |-> r.result]
        /\ prev' = Self
        /\ UNCHANGED <<vin, vout>>

\* Every call, the failing ones recorded.  A failed call leaves the object
\* as it was, so a run is followed up to its first failed call.
NextCalls ==
    \/ last.ok /\ \E in \in RegisterInputs : Register(in)
    \/ last.ok /\ \E in \in InventoryInputs : AddBlood(in)
    \/ last.ok /\ \E in \in TransferInputs : RequestTransfer(in)
    \/ last.ok /\ \E in \in PenaltyInputs : Penalize(in)
    \/ last.ok /\ \E miner \in Miners : Mine(miner)
    \/ last.ok /\ \E in \in RegisterInputs : RegisterRefused(in)
    \/ last.ok /\ \E in \in InventoryInputs : AddBloodRefused(in)
    \/ last.ok /\ \E in \in TransferInputs : RequestTransferDenied(in)
    \/ last.ok /\ \E in \in PenaltyInputs : PenalizeRefused(in)
    \/ last.ok /\ \E miner \in Miners : MineNothing(miner)

SpecCalls == Init /\ [][NextCalls]_vars

-----------------------------------------------------------------------------
(* A stored hash altered from outside the ledger's methods *)

\* the value "tampered_hash", which is the digest of nothing
TamperedHash == [pre |-> <<"tampered_hash">>, hex |-> [i \in 1..HexLen |-> 15]]

\* values a stored hash is replaced by: "tampered_hash", every hash stored in
\* the chain, and the hash recomputed from the stored block
ForgedHashes(c, i) ==
    ( {TamperedHash, calculate_hash(c[i])}
      \cup {c[j].hash : j \in 1..Len(c)}
      \cup {c[j].merkle_root : j \in 1..Len(c)} )
    \ {c[i].hash}

\* chain[i]['hash'] = h, as the validation test does for i = 1 (the second
\* block) and h = "tampered_hash"
TamperHash(i, h) ==
    /\ chain' = [chain EXCEPT ![i].hash = h]
    /\ last' = [op |-> "tamper", args |-> <<i, h>>, ok |-> TRUE, result |-> TRUE]
    /\ prev' = Self
    /\ UNCHANGED <<pending_transactions, hospitals, now, next_id, vin, vout>>

\* the ledger's calls, and one alteration of one non-genesis block's hash
NextTamper ==
    \/ last.op # "tamper" /\ \E in \in RegisterInputs : Register(in)
    \/ last.op # "tamper" /\ \E in \in InventoryInputs : AddBlood(in)
    \/ last.op # "tamper" /\ \E in \in TransferInputs : RequestTransfer(in)
    \/ last.op # "tamper" /\ \E in \in PenaltyInputs : Penalize(in)
    \/ last.op # "tamper" /\ \E miner \in Miners : Mine(miner)
    \/ last.op # "tamper" /\ \E i \in 2..Len(chain) :
                               \E h \in ForgedHashes(chain, i) : TamperHash(i, h)

SpecTamper == Init /\ [][NextTamper]_vars

-----------------------------------------------------------------------------
(* validate_blood_transfer as a function of its arguments *)

ValidateCredits == {9, 10, 11}
ValidateInventories ==
    {EmptyDict} \cup {SetItem(EmptyDict, "O+", n) : n \in 0..2}
ValidateBloodTypes == {"O+", "A+"}
ValidateQuantities == 0..2
ValidateDistances == {99, 100, 101}

\* a participant with the given credits, inventory and blacklist flag
Participant(id, credits, inventory, blacklisted) ==
    [HospitalNode(id, "Test Hospital", <<0, 0>>, credits) EXCEPT
       !.blood_inventory = inventory,
       !.is_blacklisted = blacklisted]

Validate(sender, receiver, blood_type, quantity, distance) ==
    /\ vin' = [called |-> TRUE, sender |-> sender, receiver |-> receiver,
               blood_type |-> blood_type, quantity |-> quantity,
               distance |-> distance]
    /\ vout' = validate_blood_transfer(sender, receiver, blood_type, quantity,
                                       distance)
    /\ UNCHANGED <<chain, pending_transactions, hospitals, now, next_id,
                   last, prev>>

NextValidate ==
    \E credits \in ValidateCredits, inventory \in ValidateInventories,
       sb \in BOOLEAN, rb \in BOOLEAN, bt \in ValidateBloodTypes,
       q \in ValidateQuantities, d \in ValidateDistances :
       Validate(Participant("A", credits, inventory, sb),
                Participant("B", 100, EmptyDict, rb), bt, q, d)

SpecValidate == Init /\ [][NextValidate]_vars


-----------------------------------------------------------------------------
(* Runs that start from the fixture of the tests *)

\* number of transactions created after the fixture in a run of SpecSetUp
MaxMore == 3

\* number of penalties after the fixture in a run of SpecTrust
MaxPenalties == 8

\* the object after setUp: two hospitals within range of each other are
\* registered and the first has stock; nothing is mined
SetUp ==
    LET s1 == register_hospital(NewBlockchain, "A", "City General", <<0, 0>>,
                                12).self
        s2 == register_hospital(s1, "B", "Memorial", <<5, 0>>, 12).self
    IN  add_blood_to_inventory(s2, "A", "O+", 2).self

\* the variables hold the object s, which the operation op has left
InitFrom(s, op) ==
    /\ chain = s.chain
    /\ pending_transactions = s.pending_transactions
    /\ hospitals = s.hospitals
    /\ now = s.now
    /\ next_id = s.next_id
    /\ last = [op |-> op, args |-> <<>>, ok |-> TRUE, result |-> TRUE]
    /\ prev = s
    /\ vin = NoCall
    /\ vout = NoCall

InitSetUp == InitFrom(SetUp, "setUp")

\* the calls of a test that follows setUp
NextSetUp ==
    \/ \E in \in InventoryInputs : AddBloodWithin(in, SetUp.next_id + MaxMore)
    \/ \E in \in TransferInputs :
           RequestTransferWithin(in, SetUp.next_id + MaxMore)
    \/ \E in \in PenaltyInputs : PenalizeWithin(in, SetUp.next_id + MaxMore)
    \/ \E miner \in Miners : Mine(miner)

SpecSetUp == InitSetUp /\ [][NextSetUp]_vars

\* the hospital test_tampering_penalty_system penalizes
TrustPenaltyInputs == {<<"A", "Data tampering detected">>}

\* penalties and mining after setUp, as in test_tampering_penalty_system
NextTrust ==
    \/ \E in \in TrustPenaltyInputs :
           PenalizeWithin(in, SetUp.next_id + MaxPenalties)
    \/ \E miner \in Miners : Mine(miner)

SpecTrust == InitSetUp /\ [][NextTrust]_vars

-----------------------------------------------------------------------------
(* Runs of a ledger with the block size of the source *)

\* self.max_transactions_per_block as __init__ sets it
DefaultMaxPerBlock == 10

\* the calls of the end-to-end run: two hospitals 5 km apart, 10 units for
\* the first, a transfer of 3 of them
EndToEndRegisterInputs ==
    {<<"A", "City General", <<0, 0>>, 12>>, <<"B", "Memorial", <<5, 0>>, 12>>}
EndToEndInventoryInputs == {<<"A", "O+", 10>>}
EndToEndTransferInputs == {<<"A", "B", "O+", 3, "urgent">>}

InitEndToEnd ==
    InitFrom([NewBlockchain EXCEPT
                !.max_transactions_per_block = DefaultMaxPerBlock],
             "__init__")

NextEndToEnd ==
    \/ \E in \in EndToEndRegisterInputs : Register(in)
    \/ \E in \in EndToEndInventoryInputs : AddBlood(in)
    \/ \E in \in EndToEndTransferInputs : RequestTransfer(in)
    \/ \E in \in PenaltyInputs : Penalize(in)
    \/ \E miner \in Miners : Mine(miner)

SpecEndToEnd == InitEndToEnd /\ [][NextEndToEnd]_vars

-----------------------------------------------------------------------------
(* Calls that only read, and calls on an id nobody registered *)

\* number of transactions created after the fixture in a run of SpecQueries
MaxQueried == 2

\* the ids get_hospital_stats is asked about: a registered one and the id
\* "INVALID" of the tests
QueryIds == {"A", "INVALID"}

\* calls that name the unregistered id
UnknownInventoryInputs == {<<"INVALID", "O+", 1>>}
UnknownTransferInputs ==
    { <<"INVALID", "B", "O+", 2, "urgent">>,
      <<"A", "INVALID", "O+", 1, "normal">> }
UnknownPenaltyInputs == {<<"INVALID", "Data tampering detected">>}

\* a get_hospital_stats call: the method assigns nothing
HospitalStats(hospital_id) ==
    LET result == get_hospital_stats(Self, hospital_id)
    IN  /\ last' = [op |-> "get_hospital_stats", args |-> <<hospital_id>>, ok |-> result # None, result |-> result]
        /\ prev' = Self
        /\ UNCHANGED <<chain, pending_transactions, hospitals, now, next_id, vin, vout>>

\* a get_system_stats call: the method assigns nothing
SystemStats ==
    /\ last' = [op |-> "get_system_stats", args |-> <<>>, ok |-> TRUE, result |-> get_system_stats(Self)]
    /\ prev' = Self
    /\ UNCHANGED <<chain, pending_transactions, hospitals, now, next_id, vin, vout>>

\* a validate_chain call: the method assigns nothing
ValidateChain ==
    /\ last' = [op |-> "validate_chain", args |-> <<>>, ok |-> TRUE, result |-> validate_chain(chain)]
    /\ prev' = Self
    /\ UNCHANGED <<chain, pending_transactions, hospitals, now, next_id, vin, vout>>

\* the operations that only read
QueryOps == {"get_hospital_stats", "get_system_stats", "validate_chain"}

\* the last call was neither a failed one nor a read: such calls leave the
\* object as it was, so a run is followed up to the first of them
Calling == last.ok /\ last.op \notin QueryOps

\* the calls of a test that follows setUp, the reads and the calls on the
\* unregistered id
NextQueries ==
    \/ Calling /\ \E in \in InventoryInputs :
                      AddBloodWithin(in, SetUp.next_id + MaxQueried)
    \/ Calling /\ \E in \in TransferInputs :
                      RequestTransferWithin(in, SetUp.next_id + MaxQueried)
    \/ Calling /\ \E in \in PenaltyInputs :
                      PenalizeWithin(in, SetUp.next_id + MaxQueried)
    \/ Calling /\ \E miner \in Miners : Mine(miner)
    \/ Calling /\ \E in \in UnknownInventoryInputs : AddBloodRefused(in)
    \/ Calling /\ \E in \in UnknownTransferInputs : RequestTransferDenied(in)
    \/ Calling /\ \E in \in UnknownPenaltyInputs : PenalizeRefused(in)
    \/ Calling /\ \E id \in QueryIds : HospitalStats(id)
    \/ Calling /\ SystemStats
    \/ Calling /\ ValidateChain

SpecQueries == InitSetUp /\ [][NextQueries]_vars

-----------------------------------------------------------------------------
(* calculate_merkle_root and proof_of_work as functions of their arguments *)

\* longest transaction list calculate_merkle_root is applied to
MaxLeaves == 5

\* the transactions the lists are made of: the three the fixture enqueues
MerkleTransactions ==
    {SetUp.pending_transactions[j] : j \in 1..Len(SetUp.pending_transactions)}

\* the lists of at most MaxLeaves of them
MerkleInputs == UNION {[1..n -> MerkleTransactions] : n \in 0..MaxLeaves}

\* a calculate_merkle_root call: the method builds its list of hashes anew
\* and assigns nothing to the object or to its argument
MerkleRoot(transactions) ==
    /\ vin' = [called |-> TRUE, transactions |-> transactions]
    /\ vout' = calculate_merkle_root(transactions)
    /\ UNCHANGED <<chain, pending_transactions, hospitals, now, next_id, last, prev>>

\* one call in a run: a call leaves nothing behind for the next
NextMerkle ==
    ~vin.called /\ \E transactions \in MerkleInputs : MerkleRoot(transactions)

SpecMerkle == Init /\ [][NextMerkle]_vars

\* largest last_proof the search is started from
MaxLastProof == 11

\* the last_hash values: the hashes of genesis blocks made at the times
\* 0..MaxGenesisTime
MaxGenesisTime == 9

ProofHashes == {GenesisBlock(t).hash : t \in 0..MaxGenesisTime}

\* a proof_of_work call: the method assigns nothing to the object
ProofOfWork(last_proof, last_hash) ==
    /\ vin' = [called |-> TRUE, last_proof |-> last_proof, last_hash |-> last_hash]
    /\ vout' = proof_of_work(last_proof, last_hash)
    /\ UNCHANGED <<chain, pending_transactions, hospitals, now, next_id, last, prev>>

\* one call in a run: a call leaves nothing behind for the next
NextProof ==
    ~vin.called /\ \E last_proof \in 0..MaxLastProof, last_hash \in ProofHashes :
                       ProofOfWork(last_proof, last_hash)

SpecProof == Init /\ [][NextProof]_vars

-----------------------------------------------------------------------------
(* Properties of the chain *)

\* C1: in every state the calls reach (no stored value altered from outside),
\* validate_chain() returns True.
C1_ValidateChainTrue == validate_chain(chain)

\* C2: once the stored hash of a non-genesis block is replaced by a value
\* different from it, validate_chain() returns False; the stored hash then
\* differs from the hash of the block's other fields as well.
C2_TamperedHashDetected ==
    last.op = "tamper" =>
        /\ ~validate_chain(chain)
        /\ chain[last.args[1]].hash
             # calculate_hash(WithoutKey(chain[last.args[1]], "hash"))

\* a block in the middle of the chain has had its hash replaced, by
\* "tampered_hash" or by the hash recomputed from the stored block
C2_Witness ==
    /\ last.op = "tamper"
    /\ Len(chain) >= 3
    /\ last.args[1] < Len(chain)
    /\ chain[last.args[1]].hash = calculate_hash(prev.chain[last.args[1]])

\* C3: every block after the genesis block stores as previous_hash the hash
\* stored in the block before it, and its proof is valid against the proof and
\* the hash of the block before it.
C3_LinkedAndProved ==
    \A i \in 2..Len(chain) :
        /\ chain[i].previous_hash = chain[i - 1].hash
        /\ valid_proof(chain[i - 1].proof, chain[i].proof, chain[i - 1].hash)

\* two blocks have been mined, one of them with a search that went past the
\* first nonce
C3_Witness ==
    /\ Len(chain) >= 3
    /\ \E i \in 2..Len(chain) : chain[i].proof > 0

\* the keys of a mined block
BlockKeys ==
    {"index", "timestamp", "transactions", "proof", "previous_hash",
     "merkle_root", "validator", "hash"}

\* C4: the hash stored in a non-genesis block is the hash of its fields index,
\* timestamp, transactions, proof, previous_hash, merkle_root and validator,
\* the hash field itself left out.
C4_StoredHashOfOtherFields ==
    \A i \in 2..Len(chain) :
        /\ DOMAIN chain[i] = BlockKeys
        /\ chain[i].hash = calculate_hash(WithoutKey(chain[i], "hash"))

\* a block holding transactions has been mined on top of a mined block
C4_Witness ==
    /\ Len(chain) >= 3
    /\ chain[Len(chain)].transactions # <<>>
    /\ chain[Len(chain)].hash # calculate_hash(chain[Len(chain)])

-----------------------------------------------------------------------------
(* Properties of the pool and of mining *)

RECURSIVE ChainTransactions(_)
\* the transactions of the blocks of c, in chain order
ChainTransactions(c) ==
    IF c = <<>> THEN <<>>
    ELSE Head(c).transactions \o ChainTransactions(Tail(c))

\* the blocks' transactions in chain order, followed by the pool
Ledger(s) == ChainTransactions(s.chain) \o s.pending_transactions

\* C5: every transaction enqueued so far appears exactly once in the blocks'
\* transactions followed by the pool, in the order of arrival: the k-th
\* transaction created is the k-th of that sequence, and a call never alters,
\* drops or moves a transaction that was already there.
C5_ArrivalOrderKept ==
    LET ledger == Ledger(Self)
        before == Ledger(prev)
    IN  /\ Len(ledger) = next_id
        /\ \A k \in 1..Len(ledger) : ledger[k].transaction_id = k - 1
        /\ Len(before) <= Len(ledger)
        /\ SubSeq(ledger, 1, Len(before)) = before

\* a second block has just been mined from a pool larger than the cap:
\* transactions lie in two blocks and in the pool
C5_Witness ==
    /\ last.op = "mine_pending_transactions"
    /\ Len(chain) >= 3
    /\ chain[2].transactions # <<>>
    /\ chain[3].transactions # <<>>
    /\ pending_transactions # <<>>

\* C6: mine_pending_transactions on a pool of k >= 1 transactions with cap N
\* appends one block holding the first min(k, N) pool transactions in order
\* and leaves the other k - min(k, N) in the pool in order.
C6_MineTakesPrefix ==
    (last.op = "mine_pending_transactions" /\ last.ok) =>
        LET k == Len(prev.pending_transactions)
            m == IF k <= max_transactions_per_block
                 THEN k ELSE max_transactions_per_block
        IN  /\ k >= 1
            /\ Len(chain) = Len(prev.chain) + 1
            /\ SubSeq(chain, 1, Len(prev.chain)) = prev.chain
            /\ chain[Len(chain)] = last.result
            /\ Len(chain[Len(chain)].transactions) = m
            /\ \A j \in 1..m :
                   chain[Len(chain)].transactions[j] = prev.pending_transactions[j]
            /\ Len(pending_transactions) = k - m
            /\ \A j \in 1..(k - m) :
                   pending_transactions[j] = prev.pending_transactions[m + j]

\* a pool with more transactions than the cap has been mined
C6_Witness ==
    /\ last.op = "mine_pending_transactions"
    /\ last.ok
    /\ Len(prev.pending_transactions) > max_transactions_per_block
    /\ pending_transactions # <<>>

\* what one transfer does to the participants, participant by participant:
\* the sender's count of the type goes down by the quantity, its credits by 5,
\* its sent counter up by 1; the receiver's count (0 when it has none) goes up
\* by the quantity, its credits by 2, its received counter by 1
TransferEffects(hs, tx) ==
    [h \in DOMAIN hs |->
        LET sends == IF h = tx.sender_id THEN 1 ELSE 0
            gets == IF h = tx.receiver_id THEN 1 ELSE 0
            had == hs[h].blood_inventory
            types == DOMAIN had \cup (IF gets = 1 THEN {tx.blood_type} ELSE {})
        IN  [hs[h] EXCEPT
               !.blood_inventory =
                   [bt \in types |->
                       (IF bt \in DOMAIN had THEN had[bt] ELSE 0)
                       + (IF bt = tx.blood_type
                          THEN (gets - sends) * tx.quantity ELSE 0)],
               !.blood_credits = @ - 5 * sends + 2 * gets,
               !.total_transfers_sent = @ + sends,
               !.total_transfers_received = @ + gets]]

RECURSIVE BlockEffects(_, _)
\* the effects of the transfers among txs, in their order
BlockEffects(hs, txs) ==
    IF txs = <<>> THEN hs
    ELSE BlockEffects(IF Head(txs).type = "blood_transfer"
                      THEN TransferEffects(hs, Head(txs)) ELSE hs,
                      Tail(txs))

\* C7: mining applies, for each blood_transfer of the new block in block
\* order, the transfer's effects on sender and receiver and nothing else to
\* the participants; while the call runs, the participants differ from what
\* they were only once the block is in the chain.
C7_MinedTransferEffects ==
    (last.op = "mine_pending_transactions" /\ last.ok) =>
        LET steps == MineSteps(prev, last.args[1])
        IN  /\ hospitals = BlockEffects(prev.hospitals, last.result.transactions)
            /\ \A j \in 1..Len(steps) :
                   steps[j].hospitals # prev.hospitals =>
                       /\ Len(steps[j].chain) = Len(prev.chain) + 1
                       /\ steps[j].chain = chain

\* a block with a transfer between two participants has been mined, the
\* receiver having had none of the blood type
C7_Witness ==
    /\ last.op = "mine_pending_transactions"
    /\ last.ok
    /\ \E j \in 1..Len(last.result.transactions) :
           LET tx == last.result.transactions[j]
           IN  /\ tx.type = "blood_transfer"
               /\ tx.sender_id # tx.receiver_id
               /\ tx.blood_type \notin
                      DOMAIN prev.hospitals[tx.receiver_id].blood_inventory
               /\ tx.blood_type \in
                      DOMAIN hospitals[tx.receiver_id].blood_inventory

\* C8: a transfer request, accepted or denied, leaves every participant and
\* the chain as they were; so does create_blood_transfer_transaction on any
\* arguments in any state, which leaves the pool alone as well.
C8_RequestChangesNothing ==
    /\ last.op = "create_blood_transfer_transaction" =>
           /\ hospitals = prev.hospitals
           /\ chain = prev.chain
    /\ \A in \in TransferInputs :
           LET made == create_blood_transfer_transaction(
                           Self, in[1], in[2], in[3], in[4], in[5])
           IN  /\ made.self.hospitals = hospitals
               /\ made.self.chain = chain
               /\ made.self.pending_transactions = pending_transactions

\* a request has been denied by the contract while an accepted one waits in
\* the pool
C8_Witness ==
    /\ last.op = "create_blood_transfer_transaction"
    /\ ~last.ok
    /\ last.logged[1] = "Insufficient inventory at sender hospital"
    /\ \E k \in 1..Len(pending_transactions) :
           pending_transactions[k].type = "blood_transfer"

-----------------------------------------------------------------------------
(* Properties of validate_blood_transfer *)

\* the checks in the order claimed, each as the condition under which it fails
CheckFails(n) ==
    CASE n = 1 -> vin.sender.is_blacklisted
      [] n = 2 -> vin.receiver.is_blacklisted
      [] n = 3 -> vin.sender.blood_credits < 10
      [] n = 4 -> \/ vin.blood_type \notin DOMAIN vin.sender.blood_inventory
                  \/ vin.sender.blood_inventory[vin.blood_type] < vin.quantity
      [] n = 5 -> vin.distance > 100

\* the head of the message each check gives
CheckReason(n) ==
    CASE n = 1 -> "Sender hospital is blacklisted"
      [] n = 2 -> "Receiver hospital is blacklisted"
      [] n = 3 -> "Sender has insufficient blood credits"
      [] n = 4 -> "Insufficient inventory at sender hospital"
      [] n = 5 -> "Transfer distance exceeds maximum allowed"

\* C9: validate_blood_transfer applies the checks sender blacklisted, receiver
\* blacklisted, sender credits < 10, inventory, distance > 100 in this order:
\* it rejects with the reason of the first check that fails, and accepts when
\* none fails.
C9_FirstFailingCheck ==
    vin.called =>
        LET failing == {n \in 1..5 : CheckFails(n)}
        IN  IF failing = {}
            THEN vout[1] /\ vout[2][1] = "Transfer validation successful"
            ELSE LET first == CHOOSE n \in failing : \A o \in failing : n <= o
                 IN  ~vout[1] /\ vout[2][1] = CheckReason(first)

\* every check fails at once and the reason is the sender's blacklisting
C9_Witness ==
    /\ vin.called
    /\ \A n \in 1..5 : CheckFails(n)
    /\ ~vout[1]
    /\ vout[2][1] = "Sender hospital is blacklisted"

\* C10: for a blood type the sender's inventory holds, the transfer is
\* accepted exactly when neither party is blacklisted, the sender's credits
\* are at least 10, its count of the type is at least the quantity and the
\* distance is at most 100.
C10_AcceptedExactlyWhen ==
    (vin.called /\ vin.blood_type \in DOMAIN vin.sender.blood_inventory) =>
        ( vout[1] <=>
            /\ ~vin.sender.is_blacklisted
            /\ ~vin.receiver.is_blacklisted
            /\ vin.sender.blood_credits >= 10
            /\ vin.sender.blood_inventory[vin.blood_type] >= vin.quantity
            /\ vin.distance <= 100 )

\* credits of exactly 10, a count equal to the quantity and a distance of
\* exactly 100 are accepted
C10_Witness ==
    /\ vin.called
    /\ vin.blood_type \in DOMAIN vin.sender.blood_inventory
    /\ vin.sender.blood_credits = 10
    /\ vin.quantity > 0
    /\ vin.sender.blood_inventory[vin.blood_type] = vin.quantity
    /\ vin.distance = 100
    /\ vout[1]

\* C11: for a blood type absent from the sender's inventory the inventory
\* check counts 0 units: when the blacklist and credit checks pass, the
\* transfer is rejected with the insufficient-inventory reason exactly when
\* the quantity is above 0.
C11_AbsentTypeCountsZero ==
    ( /\ vin.called
      /\ vin.blood_type \notin DOMAIN vin.sender.blood_inventory
      /\ ~vin.sender.is_blacklisted
      /\ ~vin.receiver.is_blacklisted
      /\ vin.sender.blood_credits >= 10 ) =>
        ( (~vout[1] /\ vout[2][1] = "Insufficient inventory at sender hospital")
            <=> 0 < vin.quantity )

-----------------------------------------------------------------------------
(* Properties of the participants *)

\* C12: every participant's unit count of every blood type is at least 0,
\* whatever positive quantities are added and transferred, also when several
\* accepted transfers of one sender wait in the pool and are mined later.
C12_InventoryNonNegative ==
    \A h \in DOMAIN hospitals :
        \A bt \in DOMAIN hospitals[h].blood_inventory :
            hospitals[h].blood_inventory[bt] >= 0

RECURSIVE CountPenalties(_, _)
\* the number of tampering_penalty transactions for hospital h among txs
CountPenalties(txs, h) ==
    IF txs = <<>> THEN 0
    ELSE (IF Head(txs).type = "tampering_penalty" /\ Head(txs).hospital_id = h
          THEN 1 ELSE 0) + CountPenalties(Tail(txs), h)

\* the number of penalize_tampering calls on h so far: each has left one
\* transaction in the blocks or the pool
Penalties(h) == CountPenalties(Ledger(Self), h)

\* C13: penalize_tampering on a registered id takes 1 from that participant's
\* tampering credits, sets its reputation to max(0, reputation - 15),
\* blacklists it when the tampering credits left are at most 0, appends one
\* tampering_penalty transaction to the end of the pool, and changes nothing
\* else of this participant, no other participant and not the chain.
C13_PenaltyEffects ==
    (last.op = "penalize_tampering" /\ last.ok) =>
        LET h == last.args[1]
            old == prev.hospitals[h]
            left == old.tampering_credits - 1
            n == Len(pending_transactions)
        IN  /\ hospitals[h] =
                   [old EXCEPT
                      !.tampering_credits = left,
                      !.reputation_score =
                          IF old.reputation_score - 15 > 0
                          THEN old.reputation_score - 15 ELSE 0,
                      !.is_blacklisted = (old.is_blacklisted \/ left <= 0)]
            /\ DOMAIN hospitals = DOMAIN prev.hospitals
            /\ \A o \in DOMAIN hospitals \ {h} : hospitals[o] = prev.hospitals[o]
            /\ chain = prev.chain
            /\ n = Len(prev.pending_transactions) + 1
            /\ SubSeq(pending_transactions, 1, n - 1) = prev.pending_transactions
            /\ pending_transactions[n].type = "tampering_penalty"
            /\ pending_transactions[n].hospital_id = h

\* a penalty has taken a reputation of 10 to the floor, on a participant with
\* stock, next to another participant, on a chain with mined blocks
C13_Witness ==
    /\ last.op = "penalize_tampering"
    /\ last.ok
    /\ prev.hospitals[last.args[1]].reputation_score = 10
    /\ hospitals[last.args[1]].reputation_score = 0
    /\ hospitals[last.args[1]].blood_inventory # EmptyDict
    /\ Cardinality(DOMAIN hospitals) >= 2
    /\ Len(chain) >= 2

\* C14: a participant, registered with 2 tampering credits, is blacklisted
\* exactly when penalize_tampering has been called on it at least 2 times,
\* whatever other calls come in between.
C14_BlacklistedAtSecondPenalty ==
    \A h \in DOMAIN hospitals :
        hospitals[h].is_blacklisted <=> Penalties(h) >= 2

\* the second penalty of a participant has just blacklisted it, after a
\* first penalty that did not and a mine in between
C14_Witness ==
    /\ last.op = "penalize_tampering"
    /\ Penalties(last.args[1]) = 2
    /\ ~prev.hospitals[last.args[1]].is_blacklisted
    /\ hospitals[last.args[1]].is_blacklisted
    /\ Len(chain) >= 2
    /\ CountPenalties(ChainTransactions(chain), last.args[1]) = 1

\* C15: a participant that is blacklisted before a call (a register, also a
\* refused one, an inventory update, a transfer request, a penalty, a mine)
\* is blacklisted after it.
C15_BlacklistedForGood ==
    \A h \in DOMAIN prev.hospitals :
        prev.hospitals[h].is_blacklisted =>
            /\ h \in DOMAIN hospitals
            /\ hospitals[h].is_blacklisted

\* a register call on the id of a blacklisted participant has been refused
C15_Witness ==
    /\ last.op = "register_hospital"
    /\ ~last.ok
    /\ last.args[1] \in DOMAIN prev.hospitals
    /\ prev.hospitals[last.args[1]].is_blacklisted
    /\ hospitals[last.args[1]].is_blacklisted

\* C16: every participant's reputation score is within 0..100, is
\* max(0, 100 - 15 * k) after k penalties (100 at registration), and no call
\* raises it.
C16_ReputationBounded ==
    \A h \in DOMAIN hospitals :
        LET k == Penalties(h)
            score == hospitals[h].reputation_score
        IN  /\ score \in 0..100
            /\ score = (IF 100 - 15 * k > 0 THEN 100 - 15 * k ELSE 0)
            /\ h \in DOMAIN prev.hospitals =>
                   score <= prev.hospitals[h].reputation_score

\* a participant has been penalized 8 times and its score is at the floor,
\* next to one never penalized
C16_Witness ==
    /\ \E h \in DOMAIN hospitals :
           Penalties(h) = 8 /\ hospitals[h].reputation_score = 0
    /\ \E h \in DOMAIN hospitals :
           Penalties(h) = 0 /\ hospitals[h].reputation_score = 100

\* the run of C17 up to its mine: nothing mined yet, and the pool holds the
\* registrations of A and B, the update that gives A 10 units of O+ and, as
\* the last of four transactions, the transfer of 3 of them to B
EndToEndPool(s) ==
    LET pool == s.pending_transactions
    IN  /\ Len(s.chain) = 1
        /\ Len(pool) = 4
        /\ {pool[j].type : j \in 1..3}
               = {"hospital_registration", "inventory_update"}
        /\ \E j \in 1..3 : /\ pool[j].type = "hospital_registration"
                           /\ pool[j].hospital_id = "A"
        /\ \E j \in 1..3 : /\ pool[j].type = "hospital_registration"
                           /\ pool[j].hospital_id = "B"
        /\ \E j \in 2..3 : /\ pool[j].type = "inventory_update"
                           /\ pool[j].hospital_id = "A"
                           /\ pool[j].blood_type = "O+"
                           /\ pool[j].quantity_added = 10
        /\ pool[4].type = "blood_transfer"
        /\ pool[4].sender_id = "A"
        /\ pool[4].receiver_id = "B"
        /\ pool[4].blood_type = "O+"
        /\ pool[4].quantity = 3

\* the initial_credits a participant was registered with
InitialCredits(s, h) ==
    LET txs == Ledger(s)
        j == CHOOSE j \in 1..Len(txs) :
                 /\ txs[j].type = "hospital_registration"
                 /\ txs[j].hospital_id = h
    IN  txs[j].initial_credits

\* C17: on a fresh ledger, after A and B are registered within range, 10
\* units of O+ are added to A, a transfer of 3 units of O+ from A to B is
\* accepted, and one mine, the chain has 2 blocks, A has 7 units of O+ and B
\* has 3, A has its initial credits less 5 and B its initial credits plus 2.
C17_EndToEnd ==
    (last.op = "mine_pending_transactions" /\ last.ok /\ EndToEndPool(prev)) =>
        /\ Len(chain) = 2
        /\ hospitals["A"].blood_inventory["O+"] = 7
        /\ "O+" \in DOMAIN hospitals["B"].blood_inventory
        /\ hospitals["B"].blood_inventory["O+"] = 3
        /\ hospitals["A"].blood_credits = InitialCredits(Self, "A") - 5
        /\ hospitals["B"].blood_credits = InitialCredits(Self, "B") + 2

\* the run has been made: the one mined block holds the four transactions
C17_Witness ==
    /\ last.op = "mine_pending_transactions"
    /\ last.ok
    /\ EndToEndPool(prev)
    /\ Len(chain[2].transactions) = 4
    /\ pending_transactions = <<>>
    /\ hospitals["A"].total_transfers_sent = 1

\* C18: register_hospital on an id not yet registered returns True; the new
\* participant has the given credits, an empty inventory, 2 tampering
\* credits, reputation 100, is not blacklisted and has both counters at 0;
\* one hospital_registration transaction is appended to the end of the pool;
\* no other participant and not the chain changes.
C18_RegisterCreates ==
    (last.op = "register_hospital" /\ last.ok) =>
        LET h == last.args[1]
            n == Len(pending_transactions)
        IN  /\ last.result = TRUE
            /\ h \notin DOMAIN prev.hospitals
            /\ DOMAIN hospitals = DOMAIN prev.hospitals \cup {h}
            /\ hospitals[h] =
                   [hospital_id |-> h,
                    name |-> last.args[2],
                    location |-> last.args[3],
                    blood_credits |-> last.args[4],
                    tampering_credits |-> 2,
                    blood_inventory |-> EmptyDict,
                    transaction_history |-> <<>>,
                    is_blacklisted |-> FALSE,
                    reputation_score |-> 100,
                    total_transfers_sent |-> 0,
                    total_transfers_received |-> 0]
            /\ \A o \in DOMAIN prev.hospitals : hospitals[o] = prev.hospitals[o]
            /\ chain = prev.chain
            /\ n = Len(prev.pending_transactions) + 1
            /\ SubSeq(pending_transactions, 1, n - 1) = prev.pending_transactions
            /\ pending_transactions[n].type = "hospital_registration"
            /\ pending_transactions[n].hospital_id = h
            /\ pending_transactions[n].initial_credits = last.args[4]

\* a second participant has been registered, with credits below the
\* threshold of a transfer, next to a first one with stock, on a chain with a
\* mined block and a pool that was not empty
C18_Witness ==
    /\ last.op = "register_hospital"
    /\ last.ok
    /\ last.args[4] = 9
    /\ \E o \in DOMAIN prev.hospitals : prev.hospitals[o].blood_inventory # EmptyDict
    /\ Len(chain) >= 2
    /\ prev.pending_transactions # <<>>

\* other names, locations and credits a register call may supply
OtherRegisterArguments ==
    {"City General", "County"} \X {<<0, 0>>, <<50, 0>>} \X {0, 12, 100}

\* C19: register_hospital on a registered id returns False and leaves the
\* participant on record, the pool and the chain as they were, whatever
\* name, location and credits the call supplies.
C19_DuplicateRefused ==
    /\ (last.op = "register_hospital" /\ ~last.ok) =>
           /\ last.args[1] \in DOMAIN prev.hospitals
           /\ last.result = FALSE
           /\ hospitals = prev.hospitals
           /\ pending_transactions = prev.pending_transactions
           /\ chain = prev.chain
    /\ \A h \in DOMAIN hospitals : \A a \in OtherRegisterArguments :
           LET r == register_hospital(Self, h, a[1], a[2], a[3])
           IN  /\ r.result = FALSE
               /\ r.self = Self

\* a register call with other credits than at registration has been refused
\* for a participant that holds stock
C19_Witness ==
    /\ last.op = "register_hospital"
    /\ ~last.ok
    /\ last.args[1] \in DOMAIN hospitals
    /\ hospitals[last.args[1]].blood_inventory # EmptyDict
    /\ \E j \in 1..Len(Ledger(Self)) :
           /\ Ledger(Self)[j].type = "hospital_registration"
           /\ Ledger(Self)[j].hospital_id = last.args[1]
           /\ Ledger(Self)[j].initial_credits # last.args[4]

\* C20: add_blood_to_inventory on a registered id returns True, sets the
\* participant's count of the blood type to its count before (0 without an
\* entry) plus the quantity, and appends one inventory_update transaction
\* with the new total to the end of the pool; no other blood type, no other
\* field, no other participant and not the chain changes.  The count is
\* changed when the call returns, while the transaction waits in the pool.
C20_AddInventoryEffects ==
    (last.op = "add_blood_to_inventory" /\ last.ok) =>
        LET h == last.args[1]
            bt == last.args[2]
            q == last.args[3]
            old == prev.hospitals[h]
            had == IF bt \in DOMAIN old.blood_inventory
                   THEN old.blood_inventory[bt] ELSE 0
            n == Len(pending_transactions)
        IN  /\ last.result = TRUE
            /\ h \in DOMAIN prev.hospitals
            /\ DOMAIN hospitals = DOMAIN prev.hospitals
            /\ DOMAIN hospitals[h].blood_inventory
                   = DOMAIN old.blood_inventory \cup {bt}
            /\ hospitals[h].blood_inventory[bt] = had + q
            /\ \A o \in DOMAIN old.blood_inventory \ {bt} :
                   hospitals[h].blood_inventory[o] = old.blood_inventory[o]
            /\ [hospitals[h] EXCEPT !.blood_inventory = old.blood_inventory] = old
            /\ \A o \in DOMAIN hospitals \ {h} : hospitals[o] = prev.hospitals[o]
            /\ chain = prev.chain
            /\ n = Len(prev.pending_transactions) + 1
            /\ SubSeq(pending_transactions, 1, n - 1) = prev.pending_transactions
            /\ pending_transactions[n].type = "inventory_update"
            /\ pending_transactions[n].hospital_id = h
            /\ pending_transactions[n].blood_type = bt
            /\ pending_transactions[n].quantity_added = q
            /\ pending_transactions[n].new_total = had + q

\* units have been added to an entry that held some, next to an entry of
\* another type, and nothing has been mined since the ledger was created
C20_Witness ==
    /\ last.op = "add_blood_to_inventory"
    /\ last.ok
    /\ last.args[2] \in DOMAIN prev.hospitals[last.args[1]].blood_inventory
    /\ prev.hospitals[last.args[1]].blood_inventory[last.args[2]] > 0
    /\ Cardinality(DOMAIN hospitals[last.args[1]].blood_inventory) >= 2
    /\ Len(chain) = 1

-----------------------------------------------------------------------------
(* Properties of failing calls *)

\* the chain, the pool and the participants are what they were before the
\* last call
LedgerUntouched ==
    /\ chain = prev.chain
    /\ pending_transactions = prev.pending_transactions
    /\ hospitals = prev.hospitals

\* the object s, called with an id it does not hold in every operation that
\* takes a participant id, gives the failure value and stays as it is
UnknownIdFails(s, id) ==
    /\ add_blood_to_inventory(s, id, "O+", 1) = [self |-> s, result |-> FALSE]
    /\ penalize_tampering(s, id, "Data tampering detected")
           = [self |-> s, result |-> FALSE]
    /\ get_hospital_stats(s, id) = None
    /\ \A other \in DOMAIN s.hospitals \cup {id} :
           LET as_sender == create_blood_transfer_transaction(
                                s, id, other, "O+", 1, "normal")
               as_receiver == create_blood_transfer_transaction(
                                  s, other, id, "O+", 1, "normal")
           IN  /\ as_sender.result = None /\ as_sender.self = s
               /\ as_receiver.result = None /\ as_receiver.self = s

\* C21: add_blood_to_inventory, penalize_tampering, a transfer request (the
\* unknown id as sender or as receiver) and get_hospital_stats, given an id
\* that is not registered, return False, False, None and None, and leave the
\* participants, the pool and the chain as they were.
C21_UnknownIdRefused ==
    /\ (last.op \in {"add_blood_to_inventory", "penalize_tampering"}
          /\ last.args[1] \notin DOMAIN prev.hospitals) =>
           (last.result = FALSE /\ LedgerUntouched)
    /\ (last.op = "get_hospital_stats"
          /\ last.args[1] \notin DOMAIN prev.hospitals) =>
           (last.result = None /\ LedgerUntouched)
    /\ (last.op = "create_blood_transfer_transaction"
          /\ (last.args[1] \notin DOMAIN prev.hospitals
                \/ last.args[2] \notin DOMAIN prev.hospitals)) =>
           (last.result = None /\ ~last.response.success /\ LedgerUntouched)
    /\ \A id \in {"A", "B", "INVALID"} \ DOMAIN hospitals :
           UnknownIdFails(Self, id)

\* a transfer to the unregistered id has been requested by a registered
\* sender with stock, on a ledger with a mined block and a pool in waiting
C21_Witness ==
    /\ last.op = "create_blood_transfer_transaction"
    /\ ~last.ok
    /\ last.args[2] = "INVALID"
    /\ last.args[1] \in DOMAIN hospitals
    /\ hospitals[last.args[1]].blood_inventory # EmptyDict
    /\ Len(chain) >= 2
    /\ pending_transactions # <<>>

\* the reasons of the five validation rules
RuleReasons == {CheckReason(n) : n \in 1..5}

\* C22: when a transfer request is rejected because a validation rule
\* failed, what the caller gets back (the value returned by
\* create_blood_transfer_transaction, the message of the response) carries
\* the reason of the rule that fired.
C22_ReasonReturned ==
    (last.op = "create_blood_transfer_transaction"
       /\ ~last.ok
       /\ last.logged[1] \in RuleReasons) =>
        \/ last.response.message[1] = last.logged[1]
        \/ (last.result # None /\ last.result.reason = last.logged[1])

\* C23: mine_pending_transactions on an empty pool returns None and leaves
\* the chain, the pool, every participant and the clock as they were: no
\* block is built and no proof is searched.
C23_MineOnEmptyPool ==
    /\ (last.op = "mine_pending_transactions" /\ ~last.ok) =>
           /\ prev.pending_transactions = <<>>
           /\ last.result = None
           /\ LedgerUntouched
           /\ now = prev.now
    /\ pending_transactions = <<>> =>
           \A miner \in Miners :
               mine_pending_transactions(Self, miner)
                   = [self |-> Self, result |-> None]

\* a mine on the pool that an earlier mine has emptied has returned None
C23_Witness ==
    /\ last.op = "mine_pending_transactions"
    /\ ~last.ok
    /\ Len(chain) >= 2
    /\ DOMAIN hospitals # {}

-----------------------------------------------------------------------------
(* Properties of mined blocks *)

\* the types of the transactions txs
TypesOf(txs) == {txs[j].type : j \in 1..Len(txs)}

\* C24: mining a block without a blood_transfer (registrations, inventory
\* updates and tampering penalties only) changes no participant record.
C24_OtherKindsNoEffect ==
    (last.op = "mine_pending_transactions"
       /\ last.ok
       /\ "blood_transfer" \notin TypesOf(last.result.transactions)) =>
        hospitals = prev.hospitals

\* a block of an inventory update and a penalty has been mined after a block
\* with a registration, for a participant that holds stock and was penalized
C24_Witness ==
    /\ last.op = "mine_pending_transactions"
    /\ last.ok
    /\ TypesOf(last.result.transactions)
           = {"inventory_update", "tampering_penalty"}
    /\ Len(chain) >= 3
    /\ "hospital_registration" \in TypesOf(chain[2].transactions)
    /\ \E h \in DOMAIN hospitals :
           /\ hospitals[h].blood_inventory # EmptyDict
           /\ hospitals[h].tampering_credits < 2

\* C25: a call leaves every block of the chain where and as it was; the
\* chain grows by one block in a successful mine and in no other call, and
\* never shrinks; the block at position i (from 0) has index i.
C25_AppendOnly ==
    /\ Len(chain) >= Len(prev.chain)
    /\ SubSeq(chain, 1, Len(prev.chain)) = prev.chain
    /\ Len(chain) = Len(prev.chain)
                      + (IF last.op = "mine_pending_transactions" /\ last.ok
                         THEN 1 ELSE 0)
    /\ \A i \in 1..Len(chain) : chain[i].index = i - 1

\* a third block has just been appended to the chain
C25_Witness ==
    /\ last.op = "mine_pending_transactions"
    /\ last.ok
    /\ Len(chain) >= 3
    /\ Len(prev.chain) = Len(chain) - 1

\* the block g is a genesis block
IsGenesis(g) ==
    /\ g.index = 0
    /\ g.previous_hash = "0"
    /\ g.transactions = <<>>
    /\ g.proof = 0
    /\ g.validator = "system"
    /\ g.merkle_root = sha256(EmptyBytes)
    /\ g.hash = calculate_hash(WithoutKey(g, "hash"))

\* C26: a ledger just created has a chain of one block, the genesis block:
\* index 0, previous_hash "0", no transactions, proof 0, validator "system",
\* the Merkle root of the empty list, and as stored hash the hash of its
\* other fields; its pool and its participant set are empty.  The genesis
\* block has these values whatever the time of its creation.
C26_FreshLedger ==
    /\ last.op = "__init__" =>
           /\ Len(chain) = 1
           /\ IsGenesis(chain[1])
           /\ pending_transactions = <<>>
           /\ DOMAIN hospitals = {}
    /\ \A t \in 0..MaxGenesisTime : IsGenesis(GenesisBlock(t))

\* the ledger has just been created
C26_Witness ==
    /\ last.op = "__init__"
    /\ Len(chain) = 1
    /\ DOMAIN chain[1] = BlockKeys
    /\ chain[1].hash # calculate_hash(chain[1])

\* C27: validate_chain() returns True on a chain of the genesis block alone,
\* whatever registrations, inventory updates, transfer requests and
\* penalties have been made and not mined; and a validate_chain() call
\* leaves the chain, the pool and the participants as they were.
C27_GenesisChainValid ==
    /\ Len(chain) = 1 => validate_chain(chain)
    /\ last.op = "validate_chain" =>
           /\ Len(chain) = 1 => last.result = TRUE
           /\ LedgerUntouched

\* validate_chain() has returned True with nothing mined and a pool of
\* registrations, an inventory update, a penalty and a transfer
C27_Witness ==
    /\ last.op = "validate_chain"
    /\ last.result = TRUE
    /\ Len(chain) = 1
    /\ {"hospital_registration", "inventory_update", "tampering_penalty",
        "blood_transfer"} \subseteq TypesOf(pending_transactions)

-----------------------------------------------------------------------------
(* Properties of calculate_merkle_root and proof_of_work *)

\* the leaf of a transaction: the hash of its serialization
Leaf(t) == sha256(json_dumps_tx(t))

\* H(x ++ y) for two hashes
HashPair(x, y) == sha256(HexConcat(x, y))

RECURSIVE RootOfLevel(_)
\* the root above a level of hashes: the hash itself for a level of one, and
\* else the root above the level of the hashes of its pairs (1, 2), (3, 4),
\* ..., the last hash of an odd level paired with itself
RootOfLevel(hs) ==
    IF Len(hs) = 1 THEN hs[1]
    ELSE RootOfLevel([j \in 1..((Len(hs) + 1) \div 2) |->
                         HashPair(hs[2 * j - 1],
                                  hs[IF 2 * j <= Len(hs) THEN 2 * j
                                     ELSE Len(hs)])])

\* C28: calculate_merkle_root([]) is the hash of the empty string, of [t] the
\* leaf of t, of [a, b] H(leaf(a) ++ leaf(b)), of [a, b, c]
\* H(H(leaf(a) ++ leaf(b)) ++ H(leaf(c) ++ leaf(c))); in general each level
\* of odd length above 1 has its last hash paired with itself.
C28_MerkleRoot ==
    vin.called =>
        LET txs == vin.transactions
            n == Len(txs)
            leaves == [i \in 1..n |-> Leaf(txs[i])]
        IN  /\ n = 0 => vout = sha256(EmptyBytes)
            /\ n = 1 => vout = leaves[1]
            /\ n = 2 => vout = HashPair(leaves[1], leaves[2])
            /\ n = 3 => vout = HashPair(HashPair(leaves[1], leaves[2]),
                                        HashPair(leaves[3], leaves[3]))
            /\ n = 5 => vout = HashPair(
                                   HashPair(HashPair(leaves[1], leaves[2]),
                                            HashPair(leaves[3], leaves[4])),
                                   HashPair(HashPair(leaves[5], leaves[5]),
                                            HashPair(leaves[5], leaves[5])))
            /\ n >= 1 => vout = RootOfLevel(leaves)

\* the root of five transactions, the last two different: the first level
\* and the second are of odd length
C28_Witness ==
    /\ vin.called
    /\ Len(vin.transactions) = 5
    /\ vin.transactions[4] # vin.transactions[5]
    /\ vout.pre[2].pre[1] = vout.pre[2].pre[2]

\* C29: proof_of_work(last_proof, last_hash) returns the least nonce n >= 0
\* for which valid_proof(last_proof, n, last_hash) holds; it is a function of
\* its arguments and the difficulty, and the ledger is as it was.
C29_SmallestValidNonce ==
    vin.called =>
        /\ vout \in 0..MaxNonce
        /\ valid_proof(vin.last_proof, vout, vin.last_hash)
        /\ \A n \in 0..(vout - 1) :
               ~valid_proof(vin.last_proof, n, vin.last_hash)
        /\ chain = NewBlockchain.chain
        /\ pending_transactions = <<>>
        /\ DOMAIN hospitals = {}

\* a search that went past the one-digit nonces
C29_Witness ==
    /\ vin.called
    /\ vout >= 10
    /\ valid_proof(vin.last_proof, vout, vin.last_hash)

-----------------------------------------------------------------------------
(* Properties of the statistics *)

\* the units of blood type bt that participant h holds
UnitsOf(h, bt) ==
    IF h \in DOMAIN hospitals /\ bt \in DOMAIN hospitals[h].blood_inventory
    THEN hospitals[h].blood_inventory[bt]
    ELSE 0

\* C30: get_system_stats() returns the number of participants, the number of
\* them that are blacklisted, as active the difference of the two, the sum
\* of all unit counts, the number of blocks, the length of the pool and the
\* value of validate_chain(); the call changes nothing.
C30_SystemStats ==
    last.op = "get_system_stats" =>
        LET blacklisted == {h \in DOMAIN hospitals : hospitals[h].is_blacklisted}
        IN  /\ last.result.total_hospitals = Cardinality(DOMAIN hospitals)
            /\ last.result.blacklisted_hospitals = Cardinality(blacklisted)
            /\ last.result.active_hospitals
                   = Cardinality(DOMAIN hospitals) - Cardinality(blacklisted)
            /\ DOMAIN hospitals \subseteq {"A", "B"}
            /\ \A h \in DOMAIN hospitals :
                   DOMAIN hospitals[h].blood_inventory \subseteq {"O+", "A+"}
            /\ last.result.total_blood_units
                   = UnitsOf("A", "O+") + UnitsOf("A", "A+")
                     + UnitsOf("B", "O+") + UnitsOf("B", "A+")
            /\ last.result.blockchain_length = Len(chain)
            /\ last.result.pending_transactions = Len(pending_transactions)
            /\ last.result.is_chain_valid = validate_chain(chain)
            /\ LedgerUntouched

\* the statistics of a ledger with one blacklisted and one active
\* participant, units in stock, a mined block and a pool in waiting
C30_Witness ==
    /\ last.op = "get_system_stats"
    /\ last.result.blacklisted_hospitals = 1
    /\ last.result.active_hospitals = 1
    /\ last.result.total_blood_units >= 2
    /\ last.result.blockchain_length >= 2
    /\ last.result.pending_transactions >= 1

-----------------------------------------------------------------------------
(* Config: blood type compatibility (src/config.py) *)

\* the eight blood types of the table
BloodTypes == {"O-", "O+", "A-", "A+", "B-", "B+", "AB-", "AB+"}

\* Config.BLOOD_COMPATIBILITY: donor type -> list of recipient types
BLOOD_COMPATIBILITY ==
    ("O-" :> <<"O-", "O+", "A-", "A+", "B-", "B+", "AB-", "AB+">>)
    @@ ("O+" :> <<"O+", "A+", "B+", "AB+">>)
    @@ ("A-" :> <<"A-", "A+", "AB-", "AB+">>)
    @@ ("A+" :> <<"A+", "AB+">>)
    @@ ("B-" :> <<"B-", "B+", "AB-", "AB+">>)
    @@ ("B+" :> <<"B+", "AB+">>)
    @@ ("AB-" :> <<"AB-", "AB+">>)
    @@ ("AB+" :> <<"AB+">>)

\* Config.get_compatible_recipients(donor_blood_type)
get_compatible_recipients(donor_blood_type) ==
    IF donor_blood_type \in DOMAIN BLOOD_COMPATIBILITY
    THEN BLOOD_COMPATIBILITY[donor_blood_type]
    ELSE <<>>

\* is_compatible that looks the recipient up and searches for the donor
is_compatible_reversed(donor_type, recipient_type) ==
    LET compatible_types ==
            IF recipient_type \in DOMAIN BLOOD_COMPATIBILITY
            THEN BLOOD_COMPATIBILITY[recipient_type]
            ELSE <<>>
    IN  \E i \in 1..Len(compatible_types) : compatible_types[i] = donor_type

\* Config.is_compatible(donor_type, recipient_type)
is_compatible(donor_type, recipient_type) ==
    LET compatible_types ==
            IF donor_type \in DOMAIN BLOOD_COMPATIBILITY
            THEN BLOOD_COMPATIBILITY[donor_type]
            ELSE <<>>
    IN  \E i \in 1..Len(compatible_types) : compatible_types[i] = recipient_type

\* the types the two methods are called with: the eight of the table and two
\* strings that are not keys of it
CompatibilityInputs == BloodTypes \cup {"o-", "Rh-null"}

\* one call of each method on a pair of types: neither assigns anything
Compatibility(donor_type, recipient_type) ==
    /\ vin' = [called |-> TRUE, donor_type |-> donor_type, recipient_type |-> recipient_type]
    /\ vout' = [recipients |-> get_compatible_recipients(donor_type),
                compatible |-> is_compatible(donor_type, recipient_type)]
    /\ UNCHANGED <<chain, pending_transactions, hospitals, now, next_id, last, prev>>

\* one pair in a run: a call leaves nothing behind for the next
NextCompatibility ==
    ~vin.called /\ \E d \in CompatibilityInputs, r \in CompatibilityInputs :
                       Compatibility(d, r)

SpecCompatibility == Init /\ [][NextCompatibility]_vars

\* the elements of the list s
Elements(s) == {s[i] : i \in 1..Len(s)}

\* C31: is_compatible(d, r) is true exactly when r is in
\* get_compatible_recipients(d); O- is compatible with all eight types, every
\* type of the table with AB+ and with itself, AB+ with AB+ alone, A+ not with
\* B+, and a donor type outside the table with no recipient.
C31_Compatibility ==
    vin.called =>
        LET d == vin.donor_type
            r == vin.recipient_type
        IN  /\ vout.compatible <=> r \in Elements(vout.recipients)
            /\ d = "O-" => Elements(vout.recipients) = BloodTypes
            /\ (d \in BloodTypes /\ (r = "AB+" \/ r = d)) => vout.compatible
            /\ d = "AB+" => (vout.compatible <=> r = "AB+")
            /\ (d = "A+" /\ r = "B+") => ~vout.compatible
            /\ d \notin BloodTypes =>
                   (vout.recipients = <<>> /\ ~vout.compatible)
            /\ Len(vout.recipients) = Cardinality(Elements(vout.recipients))

\* O- has been found compatible with a recipient that cannot donate to it
C31_Witness ==
    /\ vin.called
    /\ vin.donor_type = "O-"
    /\ vin.recipient_type = "AB+"
    /\ vout.compatible
    /\ ~is_compatible(vin.recipient_type, vin.donor_type)

-----------------------------------------------------------------------------
(* Conservation of blood and the counters of a participant *)

\* the units of blood type bt that hospital h holds among the participants hs
UnitsIn(hs, h, bt) ==
    IF h \in DOMAIN hs /\ bt \in DOMAIN hs[h].blood_inventory
    THEN hs[h].blood_inventory[bt]
    ELSE 0

RECURSIVE TotalUnits(_, _, _)
\* the units of blood type bt that the hospitals ids hold together
TotalUnits(hs, ids, bt) ==
    IF ids = {} THEN 0
    ELSE LET h == CHOOSE x \in ids : TRUE
         IN  UnitsIn(hs, h, bt) + TotalUnits(hs, ids \ {h}, bt)

\* the transfers among the transactions txs
TransfersOf(txs) == SelectSeq(txs, LAMBDA tx : tx.type = "blood_transfer")

\* C32: for every blood type the units held by all participants together are
\* the same before and after a mine, whatever the block holds; the total
\* changes only through add_blood_to_inventory, by the quantity added.
C32_BloodConserved ==
    \A bt \in {"O+", "A+"} :
        LET before == TotalUnits(prev.hospitals, HospitalIds, bt)
            after == TotalUnits(hospitals, HospitalIds, bt)
        IN  IF last.op = "add_blood_to_inventory"
            THEN after = before + (IF last.args[2] = bt THEN last.args[3] ELSE 0)
            ELSE after = before

\* a block of two transfers is mined, one of them from a participant to
\* itself, and units have moved between two participants
C32_Witness ==
    /\ last.op = "mine_pending_transactions"
    /\ LET txs == TransfersOf(last.result.transactions)
       IN  /\ Len(txs) = 2
           /\ \E i \in 1..2 : txs[i].sender_id = txs[i].receiver_id
           /\ \E i \in 1..2 : txs[i].sender_id # txs[i].receiver_id
    /\ UnitsIn(hospitals, "B", "O+") # UnitsIn(prev.hospitals, "B", "O+")

\* the number of transfers among txs that hospital p sent
SentIn(txs, p) ==
    Len(SelectSeq(txs, LAMBDA tx : tx.type = "blood_transfer" /\ tx.sender_id = p))

\* the number of transfers among txs that hospital p received
ReceivedIn(txs, p) ==
    Len(SelectSeq(txs, LAMBDA tx : tx.type = "blood_transfer" /\ tx.receiver_id = p))

\* C33: for every participant p, total_transfers_sent is the number of
\* blood_transfer transactions in the chain's blocks whose sender is p,
\* total_transfers_received the number whose receiver is p, and blood_credits
\* is the initial credits - 5 * sent + 2 * received; the transfers in the pool
\* count for nothing.
C33_CountersMatchChain ==
    \A p \in DOMAIN hospitals :
        LET mined == ChainTransactions(chain)
            sent == SentIn(mined, p)
            received == ReceivedIn(mined, p)
        IN  /\ hospitals[p].total_transfers_sent = sent
            /\ hospitals[p].total_transfers_received = received
            /\ hospitals[p].blood_credits =
                   InitialCredits(Self, p) - 5 * sent + 2 * received

\* one transfer of two units from A to B is mined and counted once on each
\* side, while another transfer sent by A waits in the pool
C33_Witness ==
    /\ hospitals["A"].total_transfers_sent = 1
    /\ hospitals["B"].total_transfers_received = 1
    /\ \E i \in 1..Len(ChainTransactions(chain)) :
           LET tx == ChainTransactions(chain)[i]
           IN  tx.type = "blood_transfer" /\ tx.quantity = 2
    /\ SentIn(pending_transactions, "A") = 1

-----------------------------------------------------------------------------
(* A mine in progress while other callers append.  The calls run on the     *)
(* threads of one executor and share the object without a lock; a thread    *)
(* can be switched between any two statements.  vin holds the local         *)
(* variables of the mine_pending_transactions call in progress.             *)

\* number of transactions other callers create in a run of SpecMineRace
MaxRaced == 2

\* the mine has taken its batch: the test for an empty pool and the slice
MineTake(miner_id) ==
    /\ ~vin.called
    /\ pending_transactions # <<>>
    /\ vin' = [called |-> TRUE, at |-> "taken", miner_id |-> miner_id,
               transactions_to_mine |->
                   TransactionsToMine(pending_transactions,
                                      Self.max_transactions_per_block)]
    /\ UNCHANGED <<chain, pending_transactions, hospitals, now, next_id, last, prev, vout>>

\* the mine builds the block from its batch on the last block of the chain,
\* searches the proof and appends the block
MineSeal ==
    /\ vin.called
    /\ vin.at = "taken"
    /\ LET new_block == NewBlock(chain, vin.transactions_to_mine, vin.miner_id, now)
       IN  /\ new_block.proof <= MaxNonce
           /\ chain' = Append(chain, new_block)
           /\ now' = now + 1
           /\ vin' = [vin EXCEPT !.at = "sealed"]
    /\ UNCHANGED <<pending_transactions, hospitals, next_id, last, prev, vout>>

\* the mine cuts the pool as it is now, executes the transfers of its batch
\* and returns the block; prev is the object before this last stretch
MineFinish ==
    /\ vin.called
    /\ vin.at = "sealed"
    /\ LET cut == [Self EXCEPT
                     !.pending_transactions =
                         RemainingPool(@, Self.max_transactions_per_block)]
           steps == ExecuteTransfers(cut, vin.transactions_to_mine)
       IN  /\ Becomes(steps[Len(steps)])
           /\ last' = [op |-> "mine_pending_transactions", args |-> <<vin.miner_id>>,
                       ok |-> TRUE, result |-> chain[Len(chain)]]
    /\ prev' = Self
    /\ vin' = NoCall
    /\ UNCHANGED vout

\* the calls of other threads run whole, before, during and after the mine
NextMineRace ==
    \/ \E miner \in Miners : MineTake(miner)
    \/ MineSeal
    \/ MineFinish
    \/ \E in \in InventoryInputs : AddBloodWithin(in, SetUp.next_id + MaxRaced)
    \/ \E in \in TransferInputs :
           RequestTransferWithin(in, SetUp.next_id + MaxRaced)
    \/ \E in \in PenaltyInputs : PenalizeWithin(in, SetUp.next_id + MaxRaced)

SpecMineRace == InitSetUp /\ [][NextMineRace]_vars

\* C35: a transaction another caller appends to the pool while a mine is in
\* progress is not lost: every transaction created so far is in a block or
\* in the pool, whatever the length of the pool was.
C35_AppendedNotLost ==
    \A id \in 0..(next_id - 1) :
        \E k \in 1..Len(Ledger(Self)) : Ledger(Self)[k].transaction_id = id

-----------------------------------------------------------------------------
(* register_hospital calls on two threads of the executor.  vin holds, for  *)
(* every thread, where its call stands and the call's local variables.      *)

\* the threads that run a register_hospital call
Workers == {1, 2}

\* where the call of every thread stands; no call has started at first
RegisterCalls ==
    IF vin.called THEN vin.calls ELSE [w \in Workers |-> [at |-> "idle"]]

\* the test of line 187 finds the id registered: the call returns False
RegisterTestFails(w, in) ==
    /\ RegisterCalls[w].at = "idle"
    /\ in[1] \in DOMAIN hospitals
    /\ vin' = [called |-> TRUE,
               calls |-> [RegisterCalls EXCEPT ![w] =
                            [at |-> "returned", args |-> in, result |-> FALSE]]]
    /\ last' = [op |-> "register_hospital", args |-> in, ok |-> FALSE, result |-> FALSE]
    /\ prev' = Self
    /\ UNCHANGED <<chain, pending_transactions, hospitals, now, next_id, vout>>

\* the test of line 187 finds the id free: the call goes on
RegisterTestPasses(w, in) ==
    /\ RegisterCalls[w].at = "idle"
    /\ in[1] \notin DOMAIN hospitals
    /\ vin' = [called |-> TRUE,
               calls |-> [RegisterCalls EXCEPT ![w] = [at |-> "tested", args |-> in]]]
    /\ UNCHANGED <<chain, pending_transactions, hospitals, now, next_id, last, prev, vout>>

\* lines 191-192: the node is built and stored under the id
RegisterStore(w) ==
    /\ RegisterCalls[w].at = "tested"
    /\ LET in == RegisterCalls[w].args
       IN  hospitals' = SetItem(hospitals, in[1],
                                HospitalNode(in[1], in[2], in[3], in[4]))
    /\ vin' = [vin EXCEPT !.calls[w].at = "stored"]
    /\ UNCHANGED <<chain, pending_transactions, now, next_id, last, prev, vout>>

\* lines 195-207: the registration transaction is appended and the call
\* returns True
RegisterAppend(w) ==
    /\ RegisterCalls[w].at = "stored"
    /\ LET in == RegisterCalls[w].args
           registration_tx ==
               [type |-> "hospital_registration",
                hospital_id |-> in[1],
                name |-> in[2],
                location |-> in[3],
                initial_credits |-> in[4],
                timestamp |-> now,
                transaction_id |-> next_id]
       IN  /\ pending_transactions' = Append(pending_transactions, registration_tx)
           /\ last' = [op |-> "register_hospital", args |-> in, ok |-> TRUE, result |-> TRUE]
    /\ now' = now + 1
    /\ next_id' = next_id + 1
    /\ prev' = Self
    /\ vin' = [vin EXCEPT !.calls[w] = [at |-> "returned", args |-> @.args, result |-> TRUE]]
    /\ UNCHANGED <<chain, hospitals, vout>>

\* one call on every thread, switched between any two of its statements
NextRegisterRace ==
    \/ \E w \in Workers, in \in RegisterInputs : RegisterTestFails(w, in)
    \/ \E w \in Workers, in \in RegisterInputs : RegisterTestPasses(w, in)
    \/ \E w \in Workers : RegisterStore(w)
    \/ \E w \in Workers : RegisterAppend(w)

SpecRegisterRace == Init /\ [][NextRegisterRace]_vars

\* the number of hospital_registration transactions for id among txs
RegistrationsOf(txs, id) ==
    Len(SelectSeq(txs, LAMBDA tx : tx.type = "hospital_registration" /\ tx.hospital_id = id))

\* C36: when two register_hospital calls with the same id have run on two
\* threads, exactly one has returned True, exactly one registration
\* transaction for the id is enqueued, and the participant stored is the one
\* of the call that returned True.
C36_OneRegistrationWins ==
    \A w1, w2 \in Workers :
        LET c1 == RegisterCalls[w1]
            c2 == RegisterCalls[w2]
        IN  (/\ w1 # w2
             /\ c1.at = "returned"
             /\ c2.at = "returned"
             /\ c1.args[1] = c2.args[1]) =>
                /\ c1.result # c2.result
                /\ RegistrationsOf(Ledger(Self), c1.args[1]) = 1
                /\ c1.result =>
                       hospitals[c1.args[1]] =
                           HospitalNode(c1.args[1], c1.args[2], c1.args[3], c1.args[4])

-----------------------------------------------------------------------------
(* Mining until the pool is empty, as demonstrate_blockchain_mining does:   *)
(* the transactions are created first, then mine_pending_transactions is    *)
(* called while the pool holds any.                                         *)

\* no block has been mined yet: the run still creates transactions
Enqueuing == Len(chain) = 1

\* the iterations the loop may start: it breaks once miner_index exceeds this
MaxMinerIndex == 10

\* miner_index, the number of iterations of the loop so far
MinerIndex == IF "miner_index" \in DOMAIN last THEN last.miner_index ELSE 0

\* the loop "while blockchain.pending_transactions" starts another iteration
MineEnabled == pending_transactions # <<>> /\ MinerIndex <= MaxMinerIndex

\* one iteration of the loop: a mine_pending_transactions call whose
\* proof-of-work search ends, then miner_index += 1
MineAgain ==
    \E miner \in Miners :
        LET r == mine_pending_transactions(Self, miner)
        IN  /\ MineEnabled
            /\ r.result.proof <= MaxNonce
            /\ Becomes(r.self)
            /\ last' = [op |-> "mine_pending_transactions", args |-> <<miner>>, ok |-> TRUE,
                        result |-> r.result, miner_index |-> MinerIndex + 1]
            /\ prev' = Self
            /\ UNCHANGED <<vin, vout>>

NextDrain ==
    \/ \E in \in RegisterInputs : Enqueuing /\ Register(in)
    \/ \E in \in InventoryInputs : Enqueuing /\ AddBlood(in)
    \/ \E in \in TransferInputs : Enqueuing /\ RequestTransfer(in)
    \/ \E in \in PenaltyInputs : Enqueuing /\ Penalize(in)
    \/ MineAgain

\* a step that appends a block: under NextDrain, a MineAgain step
MineStep == Len(chain') = Len(chain) + 1

\* Weak fairness of the loop's iteration, WF_vars(MineAgain), written out:
\* the loop does not stop while it can start an iteration.  MineAgain is
\* enabled exactly in the states of MineEnabled, since every proof-of-work
\* search of the model ends within MaxNonce.
MineFairness == <>[]MineEnabled => []<><<MineStep>>_vars

SpecDrain == Init /\ [][NextDrain]_vars /\ MineFairness

\* the least number of batches of at most n that hold k transactions
CeilDiv(k, n) == (k + n - 1) \div n

\* what holds in every state of a run that mines after it has enqueued: a
\* mine shrinks the pool by its batch, the pool is empty exactly when
\* ceil(k / N) blocks are mined, and then every transaction is in a block
DrainInvariant ==
    LET N == Self.max_transactions_per_block
        k == next_id
        mines == Len(chain) - 1
    IN  /\ last.op = "mine_pending_transactions" =>
               /\ Len(pending_transactions) < Len(prev.pending_transactions)
               /\ Len(pending_transactions) =
                      Max(0, Len(prev.pending_transactions) - N)
        /\ mines <= CeilDiv(k, N)
        /\ pending_transactions = <<>> <=> mines = CeilDiv(k, N)
        /\ pending_transactions = <<>> =>
               \A id \in 0..(k - 1) :
                   \E i \in 1..Len(ChainTransactions(chain)) :
                       ChainTransactions(chain)[i].transaction_id = id

\* C37: when nothing more is enqueued and every proof-of-work search ends,
\* repeated mine calls empty the pool: a pool of k > 0 transactions with cap N
\* is empty after exactly ceil(k / N) successful mines, each of which shrinks
\* the pool, and every transaction that was pending is then in a block.
C37_PoolDrains ==
    /\ []DrainInvariant
    /\ (pending_transactions # <<>>) ~> (pending_transactions = <<>>)
    /\ <>[](pending_transactions = <<>>)

\* three transactions were pending and two mines have emptied the pool
C37_Witness ==
    /\ next_id = 3
    /\ Len(chain) = 3
    /\ pending_transactions = <<>>
    /\ Len(prev.pending_transactions) = 1
    /\ last.op = "mine_pending_transactions"

-----------------------------------------------------------------------------
(* Blacklisting, the shape of a block, and the proximity query *)

\* C38: in every state the calls reach, a participant is blacklisted if and
\* only if its tampering credits are <= 0, and its tampering credits are 2
\* less the number of penalize_tampering calls made on it, below zero too.
C38_BlacklistedIffNoCredits ==
    \A p \in DOMAIN hospitals :
        /\ hospitals[p].is_blacklisted <=> hospitals[p].tampering_credits <= 0
        /\ hospitals[p].tampering_credits = 2 - Penalties(p)

\* A was penalized three times and is blacklisted with -1 credits, some of
\* its penalties mined; B was never penalized and is not blacklisted
C38_Witness ==
    /\ Penalties("A") = 3
    /\ hospitals["A"].tampering_credits = -1
    /\ hospitals["A"].is_blacklisted
    /\ CountPenalties(ChainTransactions(chain), "A") > 0
    /\ hospitals["B"].tampering_credits = 2
    /\ ~hospitals["B"].is_blacklisted

\* C39: every block after the genesis block holds at least 1 and at most N
\* (max_transactions_per_block) transactions, its validator is the miner id
\* given to the mine call that built it, and its merkle_root is the Merkle
\* root recomputed from the transactions it stores.
C39_BlockShape ==
    /\ \A i \in 2..Len(chain) :
           LET txs == chain[i].transactions
           IN  /\ Len(txs) >= 1
               /\ Len(txs) <= Self.max_transactions_per_block
               /\ chain[i].validator \in Miners
               /\ chain[i].merkle_root =
                      RootOfLevel([j \in 1..Len(txs) |-> Leaf(txs[j])])
    /\ last.op = "mine_pending_transactions" =>
           /\ Len(chain) = Len(prev.chain) + 1
           /\ chain[Len(chain)].validator = last.args[1]

\* the chain holds a block filled to the cap and a block with one transaction
C39_Witness ==
    /\ Len(chain) = 3
    /\ Len(chain[2].transactions) = max_transactions_per_block
    /\ Len(chain[3].transactions) = 1
    /\ chain[2].merkle_root # Leaf(chain[2].transactions[1])
    /\ last.op = "mine_pending_transactions"

-----------------------------------------------------------------------------
(* verify_location_proximity on the hospitals registered so far *)

\* the default of the parameter max_distance of verify_location_proximity
DefaultProximity == 100

\* register_hospital inputs: those of RegisterInputs and B at exactly the
\* default distance from A
ProximityRegisterInputs ==
    RegisterInputs \cup { <<"B", "Memorial", <<100, 0>>, 12>> }

\* the ids the query is made with
ProximityIds == {"A", "B", "INVALID"}

\* the values of max_distance the query is made with
ProximityLimits == {1, 5, DefaultProximity}

\* a verify_location_proximity call: it assigns nothing
VerifyProximity(sender_id, receiver_id, limit) ==
    /\ last.op # "verify_location_proximity"
    /\ last' = [op |-> "verify_location_proximity",
                args |-> <<sender_id, receiver_id, limit>>, ok |-> TRUE,
                result |-> verify_location_proximity(Self, sender_id, receiver_id, limit)]
    /\ prev' = Self
    /\ UNCHANGED <<chain, pending_transactions, hospitals, now, next_id, vin, vout>>

\* hospitals are registered, then one query is made
NextProximity ==
    \/ \E in \in ProximityRegisterInputs :
           last.op # "verify_location_proximity" /\ Register(in)
    \/ \E s \in ProximityIds, r \in ProximityIds, limit \in ProximityLimits :
           VerifyProximity(s, r, limit)

SpecProximity == Init /\ [][NextProximity]_vars

\* the distance between two locations on one meridian
Gap(a, b) == IF a[1] >= b[1] THEN a[1] - b[1] ELSE b[1] - a[1]

\* validate_blood_transfer does not reject at its distance check a transfer
\* over the distance d that passes the four checks before it
DistanceCheckPasses(d) ==
    LET sender == Participant("A", min_credits, SetItem(EmptyDict, "O+", 1), FALSE)
        receiver == Participant("B", min_credits, EmptyDict, FALSE)
    IN  validate_blood_transfer(sender, receiver, "O+", 1, d)[1]

\* C40: verify_location_proximity(s, r, max) is false when s or r is not
\* registered, and otherwise true exactly when the distance between the two
\* is <= max; with the default max of 100 it is true exactly when the
\* distance check of validate_blood_transfer does not reject the pair; it
\* changes no state.
C40_Proximity ==
    last.op = "verify_location_proximity" =>
        LET s == last.args[1]
            r == last.args[2]
            limit == last.args[3]
            registered == s \in DOMAIN hospitals /\ r \in DOMAIN hospitals
        IN  /\ ~registered => last.result = FALSE
            /\ registered =>
                   LET d == Gap(hospitals[s].location, hospitals[r].location)
                   IN  /\ last.result <=> d <= limit
                       /\ limit = DefaultProximity =>
                              (last.result <=> DistanceCheckPasses(d))
            /\ Self = prev

\* the query with the default limit is true for two hospitals exactly 100
\* apart
C40_Witness ==
    /\ last.op = "verify_location_proximity"
    /\ last.args = <<"A", "B", DefaultProximity>>
    /\ last.result
    /\ hospitals["B"].location = <<100, 0>>

=============================================================================
